---- MODULE Spec2Model ----
(***************************************************************************)
(* Model of the shadow-sync pipeline of homelab-shadow: the secret         *)
(* redactor (pkg/sync/redact.go), the kustomization discovery              *)
(* (pkg/sync discover), the sync run (Syncer.Run), the branch cleanup      *)
(* (CleanupStaleBranches), the Helm test retry loop (testHelmSource) and   *)
(* the URL, value file and release name helpers called on their own.       *)
(* Go strings are sequences of one-character strings, so that splitting,   *)
(* trimming, prefix tests and indentation counting are computed as the     *)
(* code computes them.                                                     *)
(***************************************************************************)
EXTENDS Integers, Sequences, FiniteSets, TLC

VARIABLES manifest, result, emitted, redacted, again, rpc,
          tree, clusters, dirs, dirsAgain, derr, dpc,
          opts, world, remote, clone, tmp, now, spc, sdirs, ti, hi,
          sres, serr, steps, made, pushes, run, first, commits,
          cdry, clisted, cremote, ci, cres, cerr, clooked, cpc,
          helmRetries, hsource, hvalueFiles, attempt, helmResult, hres, hlog, htmp, hpc,
          fn, arg, ret, fpc

redactVars == <<manifest, result, emitted, redacted, again, rpc>>

discoverVars == <<tree, clusters, dirs, dirsAgain, derr, dpc>>

syncVars == <<opts, world, remote, clone, tmp, now, spc, sdirs, ti, hi,
              sres, serr, steps, made, pushes, run, first, commits>>

cleanupVars == <<cdry, clisted, cremote, ci, cres, cerr, clooked, cpc>>

helmTestVars ==
  <<helmRetries, hsource, hvalueFiles, attempt, helmResult, hres, hlog, htmp, hpc>>

callVars == <<fn, arg, ret, fpc>>

vars == <<redactVars, discoverVars, syncVars, cleanupVars, helmTestVars, callVars>>

\* the state of a component that a specification does not exercise
RedactIdle ==
  /\ manifest = <<>>
  /\ result = <<>>
  /\ emitted = <<>>
  /\ redacted = <<>>
  /\ again = <<>>
  /\ rpc = "idle"

DiscoverIdle ==
  /\ tree = {}
  /\ clusters = <<>>
  /\ dirs = <<>>
  /\ dirsAgain = <<>>
  /\ derr = "none"
  /\ dpc = "idle"

SyncIdle ==
  /\ opts = <<>>
  /\ world = <<>>
  /\ remote = <<>>
  /\ clone = <<>>
  /\ tmp = {}
  /\ now = 0
  /\ spc = "idle"
  /\ sdirs = <<>>
  /\ ti = 0
  /\ hi = 0
  /\ sres = <<>>
  /\ serr = "none"
  /\ steps = <<>>
  /\ made = FALSE
  /\ pushes = <<>>
  /\ run = 0
  /\ first = <<>>
  /\ commits = <<>>

CleanupIdle ==
  /\ cdry = FALSE
  /\ clisted = <<>>
  /\ cremote = {}
  /\ ci = 0
  /\ cres = <<>>
  /\ cerr = "none"
  /\ clooked = <<>>
  /\ cpc = "idle"

HelmTestIdle ==
  /\ helmRetries = 0
  /\ hsource = <<>>
  /\ hvalueFiles = <<>>
  /\ attempt = 0
  /\ helmResult = <<>>
  /\ hres = <<>>
  /\ hlog = <<>>
  /\ htmp = {}
  /\ hpc = "idle"

CallsIdle ==
  /\ fn = "none"
  /\ arg = <<>>
  /\ ret = <<>>
  /\ fpc = "idle"

(***************************************************************************)
(* Bounds of the model.                                                    *)
(***************************************************************************)
MaxLines == 3

MaxDirs == 3

(***************************************************************************)
(* String helpers: package strings of the Go standard library, as used by  *)
(* redact.go.                                                              *)
(***************************************************************************)
NL == <<"\n">>

IsSpace(c) == c \in {" ", "\t", "\n", "\r"}

HasPrefix(s, p) == Len(p) <= Len(s) /\ SubSeq(s, 1, Len(p)) = p

HasSuffix(s, p) == Len(p) <= Len(s) /\ SubSeq(s, Len(s) - Len(p) + 1, Len(s)) = p

TrimSuffix(s, suffix) ==
  IF HasSuffix(s, suffix) THEN SubSeq(s, 1, Len(s) - Len(suffix)) ELSE s

TrimPrefix(s, prefix) ==
  IF HasPrefix(s, prefix) THEN SubSeq(s, Len(prefix) + 1, Len(s)) ELSE s

HasAt(s, i, p) == i + Len(p) - 1 <= Len(s) /\ SubSeq(s, i, i + Len(p) - 1) = p

Contains(s, sub) == \E i \in 1..(Len(s) + 1) : HasAt(s, i, sub)

\* strings.Index, 1-based; 0 when sub does not occur
Index(s, sub) ==
  LET hits == {i \in 1..(Len(s) - Len(sub) + 1) : HasAt(s, i, sub)}
  IN  IF hits = {} THEN 0 ELSE CHOOSE i \in hits : \A j \in hits : i <= j

RECURSIVE Split(_, _)
Split(s, sep) ==
  LET i == Index(s, sep)
  IN  IF i = 0 THEN <<s>>
      ELSE <<SubSeq(s, 1, i - 1)>> \o Split(SubSeq(s, i + Len(sep), Len(s)), sep)

RECURSIVE Join(_, _)
Join(parts, sep) ==
  IF Len(parts) = 0 THEN <<>>
  ELSE IF Len(parts) = 1 THEN parts[1]
  ELSE parts[1] \o sep \o Join(Tail(parts), sep)

RECURSIVE TrimLeft(_)
TrimLeft(s) == IF Len(s) > 0 /\ IsSpace(s[1]) THEN TrimLeft(Tail(s)) ELSE s

RECURSIVE TrimRight(_)
TrimRight(s) ==
  IF Len(s) > 0 /\ IsSpace(s[Len(s)]) THEN TrimRight(SubSeq(s, 1, Len(s) - 1)) ELSE s

TrimSpace(s) == TrimRight(TrimLeft(s))

RECURSIVE Repeat(_, _)
Repeat(c, n) == IF n <= 0 THEN <<>> ELSE <<c>> \o Repeat(c, n - 1)

(***************************************************************************)
(* redact.go                                                               *)
(***************************************************************************)
DocSeparator == <<"\n","-","-","-">>

DocMarker == <<"-","-","-">>

KindKey == <<"k","i","n","d",":">>

SecretWord == <<"S","e","c","r","e","t">>

dataPatterns == << <<"d","a","t","a",":">>,
                   <<"s","t","r","i","n","g","D","a","t","a",":">>,
                   <<"b","i","n","a","r","y","D","a","t","a",":">> >>

RedactedComment ==
  <<"#"," ","R","E","D","A","C","T","E","D"," ","-"," ","s","e","c","r","e","t","s",
    " ","a","r","e"," ","n","o","t"," ","i","n","c","l","u","d","e","d"," ","i","n",
    " ","s","h","a","d","o","w"," ","d","i","f","f","s">>

EmptyMap == <<"{","}">>

EmptyMapSpaced == <<"{"," ","}">>

\* splitYAMLDocuments: strings.Split on "\n---", "---" restored on every part but the first
splitYAMLDocuments(m) ==
  LET parts == Split(m, DocSeparator)
  IN  [i \in 1..Len(parts) |-> IF i = 1 THEN parts[i] ELSE DocMarker \o parts[i]]

\* The position right after the whitespace run that starts at i (\s* is greedy and
\* the next token never starts with whitespace).
RECURSIVE SkipSpace(_, _)
SkipSpace(s, i) == IF i <= Len(s) /\ IsSpace(s[i]) THEN SkipSpace(s, i + 1) ELSE i

\* `\s*$` of the pattern from position i on: some run of whitespace ends at the end
\* of the text or before a newline
SpaceToLineEnd(s, i) ==
  \E k \in 0..(Len(s) - i + 1) :
     /\ \A j \in i..(i + k - 1) : IsSpace(s[j])
     /\ (i + k > Len(s) \/ s[i + k] = "\n")

\* isSecretDocument with the trimmed-line test: a plausible wrong classifier
isSecretDocumentTrimmed(doc) ==
  LET lines == Split(doc, NL)
  IN  \E i \in 1..Len(lines) : TrimSpace(lines[i]) = KindKey \o <<" ">> \o SecretWord

\* isSecretDocument: regexp (?m)^kind:\s*Secret\s*$
isSecretDocument(doc) ==
  \E p \in 1..Len(doc) :
     /\ (p = 1 \/ doc[p - 1] = "\n")
     /\ HasAt(doc, p, KindKey)
     /\ LET q == SkipSpace(doc, p + Len(KindKey))
        IN  /\ HasAt(doc, q, SecretWord)
            /\ SpaceToLineEnd(doc, q + Len(SecretWord))

\* countIndent: leading spaces, a tab counting as two
RECURSIVE countIndent(_)
countIndent(line) ==
  IF Len(line) = 0 THEN 0
  ELSE IF line[1] = " " THEN 1 + countIndent(Tail(line))
  ELSE IF line[1] = "\t" THEN 2 + countIndent(Tail(line))
  ELSE 0

\* the first pattern of dataPatterns that the trimmed line is or starts with; 0 if none
MatchedPattern(trimmed) ==
  LET hits == {k \in 1..Len(dataPatterns) :
                 \/ trimmed = dataPatterns[k]
                 \/ HasPrefix(trimmed, dataPatterns[k] \o <<" ">>)}
  IN  IF hits = {} THEN 0 ELSE CHOOSE k \in hits : \A j \in hits : k <= j

IsInlineEmpty(trimmed) == Contains(trimmed, EmptyMap) \/ Contains(trimmed, EmptyMapSpaced)

\* One iteration of the loop of redactSecretDocument over line number i (1-based).
\* st = [out, skip, field]: result, skipUntilIndent, redactedField ("" as <<>>).
RedactLine(st, line, i) ==
  IF st.skip >= 0 /\ (line = <<>> \/ countIndent(line) > st.skip)
    THEN st                                                   \* continue
    ELSE
      LET trimmed == TrimSpace(line)
          k       == MatchedPattern(trimmed)
          indent  == countIndent(line)
          out1    == IF k = 0 THEN st.out
                     ELSE st.out \o <<line, Repeat(" ", indent + 2) \o RedactedComment>>
          field1  == IF k = 0 THEN st.field ELSE dataPatterns[k]
          skip1   == IF k = 0 \/ IsInlineEmpty(trimmed) THEN -1 ELSE indent
      IN  IF skip1 >= 0 /\ field1 # <<>>
            THEN [out |-> out1, skip |-> skip1, field |-> <<>>]
          ELSE IF i > 1 /\ skip1 >= 0
            THEN [out |-> out1, skip |-> skip1, field |-> field1]
          ELSE [out |-> out1 \o <<line>>, skip |-> skip1, field |-> field1]

RECURSIVE RedactLoop(_, _, _)
RedactLoop(lines, i, st) ==
  IF i > Len(lines) THEN st ELSE RedactLoop(lines, i + 1, RedactLine(st, lines[i], i))

redactSecretDocument(doc) ==
  LET lines == Split(doc, NL)
  IN  Join(RedactLoop(lines, 1, [out |-> <<>>, skip |-> -1, field |-> <<>>]).out, NL)

\* RedactSecrets, the loop over the documents: the slice `result`
RedactDocs(m) ==
  LET docs == splitYAMLDocuments(m)
  IN  [i \in 1..Len(docs) |->
         IF isSecretDocument(docs[i]) THEN redactSecretDocument(docs[i]) ELSE docs[i]]

\* joinYAMLDocuments without the newline guard: separators glued to the text before
EnsureNewlineMissing(str) == str

\* joinYAMLDocuments, the guard before a document after the first is written
EnsureNewline(str) ==
  IF Len(str) > 0 /\ ~HasSuffix(str, NL) THEN str \o NL ELSE str

\* what the builder holds right before docs[i] (i > 1) is written
BeforeDoc(str, doc) ==
  LET s1 == EnsureNewline(str)
  IN  IF ~HasPrefix(doc, DocMarker) THEN s1 \o DocMarker \o NL ELSE s1

\* the builder contents right before each document is written
RECURSIVE JoinTrace(_, _, _)
JoinTrace(docs, i, acc) ==
  IF i > Len(docs) THEN <<>>
  ELSE LET before == IF i = 1 THEN acc ELSE BeforeDoc(acc, docs[i])
       IN  <<before>> \o JoinTrace(docs, i + 1, before \o docs[i])

joinYAMLDocuments(docs) ==
  IF Len(docs) = 0 THEN <<>>
  ELSE LET tr == JoinTrace(docs, 1, <<>>)
       IN  tr[Len(docs)] \o docs[Len(docs)]

RedactSecrets(m) == joinYAMLDocuments(RedactDocs(m))

(***************************************************************************)
(* Inputs of the redactor: manifests of at most MaxLines lines.            *)
(***************************************************************************)
InputLines ==
  { <<>>,
    <<"k","i","n","d",":"," ","S","e","c","r","e","t">>,
    <<" "," ","k","i","n","d",":"," ","S","e","c","r","e","t">>,
    <<"k","i","n","d",":">>,
    <<" ","S","e","c","r","e","t"," ">>,
    <<"d","a","t","a",":">>,
    <<" "," ","s","t","r","i","n","g","D","a","t","a",":">>,
    <<"d","a","t","a",":"," ","{","}">>,
    <<"d","a","t","a",":"," ","|">>,
    <<" ","\t","k",":"," ","v">>,
    <<"z",":"," ","w">>,
    <<"-","-","-">> }

RECURSIVE LineSeqs(_)
LineSeqs(n) ==
  IF n = 0 THEN {<<>>}
  ELSE LET shorter == LineSeqs(n - 1)
       IN  shorter \cup {Append(ls, l) : ls \in {x \in shorter : Len(x) = n - 1}, l \in InputLines}

Manifests == {Join(ls, NL) : ls \in LineSeqs(MaxLines) \ {<<>>}}

(***************************************************************************)
(* The redactor as a state machine: a manifest is rendered, RedactSecrets  *)
(* is applied to it, and applied once more to its own output.              *)
(***************************************************************************)
InitRedact ==
  /\ manifest \in Manifests
  /\ result = <<>>
  /\ emitted = <<>>
  /\ redacted = <<>>
  /\ again = <<>>
  /\ rpc = "rendered"
  /\ DiscoverIdle
  /\ SyncIdle
  /\ CleanupIdle
  /\ HelmTestIdle
  /\ CallsIdle

Redact ==
  /\ rpc = "rendered"
  /\ result' = RedactDocs(manifest)
  /\ emitted' = JoinTrace(result', 1, <<>>)
  /\ redacted' = joinYAMLDocuments(result')
  /\ rpc' = "redacted"
  /\ UNCHANGED <<manifest, again, discoverVars, syncVars, cleanupVars, helmTestVars, callVars>>

RedactAgain ==
  /\ rpc = "redacted"
  /\ again' = RedactSecrets(redacted)
  /\ rpc' = "twice"
  /\ UNCHANGED <<manifest, result, emitted, redacted, discoverVars, syncVars,
               cleanupVars, helmTestVars, callVars>>

NextRedact == Redact \/ RedactAgain

SpecRedact == InitRedact /\ [][NextRedact]_vars

(***************************************************************************)
(* Discovery (DiscoverKustomizationsForSync).  The repository is the set   *)
(* `tree` of the relative directories that directly hold a                 *)
(* kustomization.yaml; a path is a string with "/" between its segments.   *)
(***************************************************************************)
Slash == <<"/">>

Star == <<"*">>

Seg_apps == <<"a","p","p","s">>

Seg_infrastructure == <<"i","n","f","r","a","s","t","r","u","c","t","u","r","e">>

Seg_operators == <<"o","p","e","r","a","t","o","r","s">>

Seg_security == <<"s","e","c","u","r","i","t","y">>

Seg_overlays == <<"o","v","e","r","l","a","y","s">>

Seg_stack == <<"s","t","a","c","k">>

Seg_db == <<"d","b">>

Seg_base == <<"b","a","s","e">>

newAppPatterns ==
  << <<Seg_apps, Star, Seg_overlays, Star, Star>>,
     <<Seg_apps, Star, Seg_stack, Star, Star>>,
     <<Seg_apps, Star, Seg_db, Seg_overlays, Star, Star>> >>

legacyAppPatterns ==
  << <<Seg_apps, Star, Seg_overlays, Star>>,
     <<Seg_apps, Star, Seg_stack, Star>>,
     <<Seg_apps, Star, Seg_db, Seg_overlays, Star>> >>

\* infrastructure patterns that lost their overlays segment
infraPatternsLoose ==
  << <<Seg_infrastructure, Star, Star>>,
     <<Seg_operators, Star, Star>>,
     <<Seg_security, Star, Star>> >>

infraPatterns ==
  << <<Seg_infrastructure, Star, Seg_overlays, Star>>,
     <<Seg_operators, Star, Seg_overlays, Star>>,
     <<Seg_security, Star, Seg_overlays, Star>> >>

\* filepath.Match of a pattern made of literal segments and `*` segments
MatchSegs(pattern, segs) ==
  /\ Len(pattern) = Len(segs)
  /\ \A i \in 1..Len(pattern) : pattern[i] = Star \/ pattern[i] = segs[i]

\* filepath.Glob(repoPath/<pattern>/kustomization.yaml), each match turned into its
\* directory relative to repoPath
GlobDirs(fs, patterns) ==
  {d \in fs : LET segs == Split(d, Slash)
              IN  \E k \in 1..Len(patterns) : MatchSegs(patterns[k], segs)}

\* extractClusterFromAppPath that takes the fourth segment of every app path
extractClusterFourthSegment(relDir) ==
  LET parts == Split(relDir, Slash)
  IN  IF Len(parts) < 5 \/ parts[1] # Seg_apps
        THEN [cluster |-> <<>>, ok |-> FALSE]
        ELSE [cluster |-> parts[4], ok |-> TRUE]

extractClusterFromAppPath(relDir) ==
  LET parts == Split(relDir, Slash)
  IN  IF Len(parts) < 4 \/ parts[1] # Seg_apps
        THEN [cluster |-> <<>>, ok |-> FALSE]
      ELSE IF Len(parts) >= 5 /\ (parts[3] = Seg_overlays \/ parts[3] = Seg_stack)
        THEN [cluster |-> parts[4], ok |-> TRUE]
      ELSE IF Len(parts) >= 6 /\ parts[3] = Seg_db /\ parts[4] = Seg_overlays
        THEN [cluster |-> parts[5], ok |-> TRUE]
      ELSE [cluster |-> <<>>, ok |-> FALSE]

\* isClusterDirectory that never recognises a cluster container
isClusterDirectoryNever(fs, relDir) == FALSE

\* isClusterDirectory: Glob(<dir>/*/kustomization.yaml) is not empty
isClusterDirectory(fs, relDir) ==
  \E d \in fs :
     LET segs == Split(d, Slash)
         own  == Split(relDir, Slash)
     IN  Len(segs) = Len(own) + 1 /\ SubSeq(segs, 1, Len(own)) = own

containsString(slice, val) == \E i \in 1..Len(slice) : slice[i] = val

filepathBase(relDir) == LET segs == Split(relDir, Slash) IN segs[Len(segs)]

\* the map dirSet after the three loops of DiscoverKustomizationsForSync
DirSet(fs, cl) ==
  LET Filtered(d) == LET c == extractClusterFromAppPath(d)
                     IN  Len(cl) > 0 /\ c.ok /\ ~containsString(cl, c.cluster)
      new    == {d \in GlobDirs(fs, newAppPatterns) : ~Filtered(d)}
      legacy == {d \in GlobDirs(fs, legacyAppPatterns) :
                   d \notin new /\ ~isClusterDirectory(fs, d)}
      infra  == {d \in GlobDirs(fs, infraPatterns) :
                   ~(Len(cl) > 0 /\ ~containsString(cl, filepathBase(d)))}
  IN  new \cup legacy \cup infra

\* byte order of the characters that occur in paths
Ascii ==
  <<"-",".","/","0","1","2","3","4","5","6","7","8","9",
    "a","b","c","d","e","f","g","h","i","j","k","l","m","n","o","p","q",
    "r","s","t","u","v","w","x","y","z">>

Ord(c) == CHOOSE i \in 1..Len(Ascii) : Ascii[i] = c

\* Go's < on strings
RECURSIVE StrLessFrom(_, _, _)
StrLessFrom(a, b, i) ==
  IF i > Len(b) THEN FALSE
  ELSE IF i > Len(a) THEN TRUE
  ELSE IF a[i] = b[i] THEN StrLessFrom(a, b, i + 1)
  ELSE Ord(a[i]) < Ord(b[i])

StrLess(a, b) == StrLessFrom(a, b, 1)

RECURSIVE InsertSorted(_, _)
InsertSorted(x, sorted) ==
  IF Len(sorted) = 0 THEN <<x>>
  ELSE IF StrLess(sorted[1], x) THEN <<sorted[1]>> \o InsertSorted(x, Tail(sorted))
  ELSE <<x>> \o sorted

\* the list left in map iteration order
SortStringsForgotten(list) == list

\* sort.Strings
RECURSIVE SortStrings(_)
SortStrings(list) ==
  IF Len(list) = 0 THEN <<>> ELSE InsertSorted(list[1], SortStrings(Tail(list)))

\* the orders in which `for dir := range dirSet` may visit the map
MapOrders(set) ==
  {f \in [1..Cardinality(set) -> set] : \A i, j \in 1..Cardinality(set) : f[i] = f[j] => i = j}

(***************************************************************************)
(* Inputs of discovery: trees of at most MaxDirs kustomization             *)
(* directories out of Candidates, and the cluster filters.                 *)
(***************************************************************************)
Path(segs) == Join(segs, Slash)

AppA == <<"a">>

AppAB == <<"a","-","b">>

ClusterH == <<"h">>

ClusterC == <<"c">>

EnvP == <<"p">>

Candidates ==
  { Path(<<Seg_apps, AppA, Seg_overlays, ClusterH>>),
    Path(<<Seg_apps, AppA, Seg_overlays, ClusterH, EnvP>>),
    Path(<<Seg_apps, AppA, Seg_overlays, ClusterC, EnvP>>),
    Path(<<Seg_apps, AppAB, Seg_overlays, EnvP>>),
    Path(<<Seg_apps, AppA, Seg_stack, ClusterH>>),
    Path(<<Seg_apps, AppA, Seg_stack, ClusterH, EnvP>>),
    Path(<<Seg_apps, AppA, Seg_db, Seg_overlays, ClusterH>>),
    Path(<<Seg_apps, AppA, Seg_db, Seg_overlays, ClusterH, EnvP>>),
    Path(<<Seg_apps, AppA, Seg_base>>),
    Path(<<Seg_apps, AppA, Seg_overlays, Seg_base>>),
    Path(<<Seg_infrastructure, <<"i">>, Seg_overlays, ClusterH>>),
    Path(<<Seg_infrastructure, <<"i">>, Seg_base>>),
    Path(<<Seg_operators, <<"o">>, Seg_overlays, ClusterC>>),
    Path(<<Seg_security, <<"s">>, Seg_overlays, ClusterH>>),
    Path(<<<<"c","l","u","s","t","e","r","s">>, ClusterH, <<"b","o","o","t">>>>),
    Path(<<Seg_apps, AppA, Seg_overlays, ClusterH, EnvP, <<"x">>>>) }

Filters == { <<>>, <<ClusterH>>, <<ClusterC>>, <<ClusterH, ClusterC>> }

Trees == {t \in SUBSET Candidates : Cardinality(t) <= MaxDirs}

InitDiscover ==
  /\ tree \in Trees
  /\ clusters \in Filters
  /\ dirs = <<>>
  /\ dirsAgain = <<>>
  /\ derr = "none"
  /\ dpc = "ready"
  /\ RedactIdle
  /\ SyncIdle
  /\ CleanupIdle
  /\ HelmTestIdle
  /\ CallsIdle

\* DiscoverKustomizationsForSync(repoPath, clusters)
Discover ==
  /\ dpc = "ready"
  /\ \E order \in MapOrders(DirSet(tree, clusters)) : dirs' = SortStrings(order)
  /\ derr' = "nil"
  /\ dpc' = "discovered"
  /\ UNCHANGED <<tree, clusters, dirsAgain, redactVars, syncVars, cleanupVars, helmTestVars,
                 callVars>>

\* a second call on the unchanged tree with the same filter
DiscoverAgain ==
  /\ dpc = "discovered"
  /\ \E order \in MapOrders(DirSet(tree, clusters)) : dirsAgain' = SortStrings(order)
  /\ derr' = "nil"
  /\ dpc' = "again"
  /\ UNCHANGED <<tree, clusters, dirs, redactVars, syncVars, cleanupVars, helmTestVars,
                 callVars>>

NextDiscover == Discover \/ DiscoverAgain

SpecDiscover == InitDiscover /\ [][NextDiscover]_vars


(***************************************************************************)
(* Claims about the redactor.                                              *)
(***************************************************************************)
InputDocs == splitYAMLDocuments(manifest)

IsBareKey(line) == \E k \in 1..Len(dataPatterns) : TrimSpace(line) = dataPatterns[k]

IsInlineEmptyKey(line) ==
  \E k \in 1..Len(dataPatterns) :
     \/ TrimSpace(line) = dataPatterns[k] \o <<" ">> \o EmptyMap
     \/ TrimSpace(line) = dataPatterns[k] \o <<" ">> \o EmptyMapSpaced

HasLine(doc, P(_)) == LET lines == Split(doc, NL) IN \E i \in 1..Len(lines) : P(lines[i])

RECURSIVE Count(_, _)
Count(lines, l) ==
  IF Len(lines) = 0 THEN 0
  ELSE (IF lines[1] = l THEN 1 ELSE 0) + Count(Tail(lines), l)

\* The redaction of a document as the claim words it: k is the indentation of the
\* open block, -1 outside a block.
RECURSIVE ClaimedLines(_, _, _)
ClaimedLines(lines, i, k) ==
  IF i > Len(lines) THEN <<>>
  ELSE LET line == lines[i]
       IN  IF k >= 0 /\ (line = <<>> \/ countIndent(line) > k)
             THEN ClaimedLines(lines, i + 1, k)
           ELSE IF IsBareKey(line)
             THEN <<line, Repeat(" ", countIndent(line) + 2) \o RedactedComment>>
                    \o ClaimedLines(lines, i + 1, countIndent(line))
           ELSE <<line>> \o ClaimedLines(lines, i + 1, -1)

ClaimedRedaction(doc) == Join(ClaimedLines(Split(doc, NL), 1, -1), NL)

\* C1: in every document classified as a Secret that has a bare data/stringData/
\* binaryData key line at indentation k, the key line is kept, one placeholder line
\* at indentation k+2 follows it, the following lines that are empty or indented
\* more than k are omitted up to the first non-empty line indented at most k, and
\* every other line is emitted unchanged and in order.
C1_BareKeyBlockRedacted ==
  rpc # "rendered" =>
    \A i \in 1..Len(InputDocs) :
       (isSecretDocument(InputDocs[i]) /\ HasLine(InputDocs[i], IsBareKey))
         => result[i] = ClaimedRedaction(InputDocs[i])

\* a key line that carries a value on the same line (`data: {}`, `data: |`)
IsValuedKey(line) ==
  \E k \in 1..Len(dataPatterns) : HasPrefix(TrimSpace(line), dataPatterns[k] \o <<" ">>)

\* C1 restricted to the documents whose data/stringData/binaryData lines are all bare
C1_HoldsForBareKeysOnly ==
  rpc # "rendered" =>
    \A i \in 1..Len(InputDocs) :
       (isSecretDocument(InputDocs[i]) /\ ~HasLine(InputDocs[i], IsValuedKey))
         => result[i] = ClaimedRedaction(InputDocs[i])

\* C2: an input none of whose documents is classified as a Secret is returned
\* byte for byte.
C2_NonSecretInputUnchanged ==
  (rpc # "rendered" /\ \A i \in 1..Len(InputDocs) : ~isSecretDocument(InputDocs[i]))
    => redacted = manifest

\* C3: every document after the first is written when the text already emitted is
\* empty or ends in a newline, and it begins with its `---` separator, so every
\* separator of the output starts a line.
C3_SeparatorStartsLine ==
  rpc # "rendered" =>
    \A i \in 2..Len(result) :
       /\ emitted[i] = <<>> \/ emitted[i][Len(emitted[i])] = "\n"
       /\ HasPrefix(result[i], DocMarker)
       /\ HasPrefix(redacted, emitted[i] \o result[i])

\* C3 witness: a redacted first document that does not end in a newline is followed
\* by a second document.
C3_Witness ==
  /\ rpc = "redacted"
  /\ Len(result) >= 2
  /\ result[1] # InputDocs[1]
  /\ ~HasSuffix(result[1], NL)

\* The classification as the claim words it: some line, trimmed, is `kind: Secret`.
ClaimedSecret(doc) == HasLine(doc, LAMBDA l : TrimSpace(l) = KindKey \o <<" ">> \o SecretWord)

IsBlank(line) == TrimSpace(line) = <<>>

\* The classification read off the lines of the document: a line starts in column 0
\* with `kind:`, and the next non-blank text, on that line or on the next non-blank
\* line, is `Secret` followed by nothing but blanks.
KindAtLineStart(doc) ==
  LET lines == Split(doc, NL)
      rest(l) == SubSeq(l, Len(KindKey) + 1, Len(l))
  IN  \E i \in 1..Len(lines) :
         /\ HasPrefix(lines[i], KindKey)
         /\ \/ TrimSpace(rest(lines[i])) = SecretWord
            \/ /\ IsBlank(rest(lines[i]))
               /\ \E j \in (i + 1)..Len(lines) :
                     /\ TrimSpace(lines[j]) = SecretWord
                     /\ \A m \in (i + 1)..(j - 1) : IsBlank(lines[m])

\* C4 as stated: a document is redacted exactly when some line of it, trimmed, is
\* `kind: Secret`, whatever its indentation; no other document is modified.
C4_SecretIffTrimmedKindLine ==
  rpc # "rendered" =>
    \A i \in 1..Len(InputDocs) :
       result[i] = IF ClaimedSecret(InputDocs[i])
                     THEN redactSecretDocument(InputDocs[i]) ELSE InputDocs[i]

\* C4 amended: a document is redacted exactly when `kind:` starts a line in column 0
\* and is followed, after optional whitespace, by `Secret` and only whitespace to
\* the end of that line; no other document is modified.
C4_SecretIffKindAtLineStart ==
  rpc # "rendered" =>
    \A i \in 1..Len(InputDocs) :
       result[i] = IF KindAtLineStart(InputDocs[i])
                     THEN redactSecretDocument(InputDocs[i]) ELSE InputDocs[i]

\* C4 witness: a document whose kind is not the literal line `kind: Secret` is
\* classified as a Secret and changed, next to nothing else.
C4_Witness ==
  /\ rpc = "redacted"
  /\ \E i \in 1..Len(InputDocs) :
        /\ KindAtLineStart(InputDocs[i])
        /\ ~ClaimedSecret(InputDocs[i])
        /\ result[i] # InputDocs[i]

\* C5: a Secret document whose key carries an inline empty map has that key line
\* emitted exactly once and none of its lines suppressed.
C5_InlineEmptyMapEmittedOnce ==
  rpc # "rendered" =>
    \A i \in 1..Len(InputDocs) :
       LET lines == Split(InputDocs[i], NL)
           out   == Split(result[i], NL)
       IN  (isSecretDocument(InputDocs[i]) /\ ~HasLine(InputDocs[i], IsBareKey))
             => \A n \in 1..Len(lines) :
                  IsInlineEmptyKey(lines[n]) => Count(out, lines[n]) = Count(lines, lines[n])

\* C6: RedactSecrets(RedactSecrets(x)) = RedactSecrets(x).
C6_RedactIdempotent == rpc = "twice" => again = redacted

(***************************************************************************)
(* Claims about discovery.                                                 *)
(***************************************************************************)
Discovered == dpc \in {"discovered", "again"}

Returned == {dirs[i] : i \in 1..Len(dirs)}

FilterSet == {clusters[i] : i \in 1..Len(clusters)}

Segments(d) == Split(d, Slash)

\* apps/<a>/overlays/<c>/<e>, apps/<a>/stack/<c>/<e>, apps/<a>/db/overlays/<c>/<e>
IsClusterLayeredApp(segs) ==
  /\ segs[1] = Seg_apps
  /\ \/ Len(segs) = 5 /\ segs[3] \in {Seg_overlays, Seg_stack}
     \/ Len(segs) = 6 /\ segs[3] = Seg_db /\ segs[4] = Seg_overlays

\* the segment <c> of a cluster-layered app directory
ClusterSegment(segs) == IF Len(segs) = 5 THEN segs[4] ELSE segs[5]

\* apps/<a>/overlays/<e>, apps/<a>/stack/<e>, apps/<a>/db/overlays/<e>
IsLegacyApp(segs) ==
  /\ segs[1] = Seg_apps
  /\ \/ Len(segs) = 4 /\ segs[3] \in {Seg_overlays, Seg_stack}
     \/ Len(segs) = 5 /\ segs[3] = Seg_db /\ segs[4] = Seg_overlays

\* infrastructure|operators|security/<comp>/overlays/<o>
IsInfraOverlay(segs) ==
  /\ segs[1] \in {Seg_infrastructure, Seg_operators, Seg_security}
  /\ Len(segs) = 4
  /\ segs[3] = Seg_overlays

IsChildOf(child, parent) ==
  LET cs == Segments(child)
      ps == Segments(parent)
  IN  Len(cs) = Len(ps) + 1 /\ SubSeq(cs, 1, Len(ps)) = ps

IsAncestorOf(anc, d) == HasPrefix(d, anc \o Slash)

\* a directory with a subdirectory that holds its own kustomization.yaml
IsContainer(d) == \E child \in tree : IsChildOf(child, d)

\* C7: with a non-empty filter F a cluster-layered app directory is returned iff
\* its cluster is in F, an infrastructure|operators|security overlay iff its overlay
\* name is in F, and a legacy app directory that is no cluster container always;
\* with an empty filter all of them are returned.
C7_ClusterFilterDecidesDiscovery ==
  Discovered =>
    \A d \in tree :
       LET segs == Segments(d)
       IN  /\ IsClusterLayeredApp(segs) =>
                (d \in Returned <=> (clusters = <<>> \/ ClusterSegment(segs) \in FilterSet))
           /\ IsInfraOverlay(segs) =>
                (d \in Returned <=> (clusters = <<>> \/ segs[4] \in FilterSet))
           /\ (IsLegacyApp(segs) /\ ~IsContainer(d)) => d \in Returned

\* C7 witness: under a non-empty filter one cluster-layered directory is kept,
\* another is dropped and a legacy directory is kept.
C7_Witness ==
  /\ dpc = "discovered"
  /\ clusters # <<>>
  /\ \E d \in tree : IsClusterLayeredApp(Segments(d)) /\ d \in Returned
  /\ \E d \in tree : IsClusterLayeredApp(Segments(d)) /\ d \notin Returned
  /\ \E d \in tree : IsLegacyApp(Segments(d)) /\ d \in Returned

\* C8: a legacy-shaped directory with a subdirectory that holds its own
\* kustomization.yaml is never returned, with no filter its subdirectories are, and
\* no directory is returned together with one of its ancestors.
C8_ClusterContainerNeverReturned ==
  Discovered =>
    /\ \A d \in tree :
          (IsLegacyApp(Segments(d)) /\ IsContainer(d)) =>
             /\ d \notin Returned
             /\ clusters = <<>> => \A child \in tree : IsChildOf(child, d) => child \in Returned
    /\ \A x, y \in Returned : ~IsAncestorOf(x, y)

\* C8 witness: a cluster directory that holds a kustomization.yaml itself and has
\* an environment subdirectory, discovered with no filter.
C8_Witness ==
  /\ dpc = "discovered"
  /\ clusters = <<>>
  /\ \E d \in tree :
        /\ IsLegacyApp(Segments(d))
        /\ \E child \in tree : IsChildOf(child, d) /\ child \in Returned

NoTarget ==
  \A d \in tree :
     LET segs == Segments(d)
     IN  ~IsClusterLayeredApp(segs) /\ ~IsLegacyApp(segs) /\ ~IsInfraOverlay(segs)

\* C9: the returned list is strictly increasing, every returned directory holds a
\* kustomization.yaml, a second call returns the identical list, and a tree with
\* no matching directory yields the empty list and no error.
C9_SortedUniqueRepeatable ==
  Discovered =>
    /\ \A i \in 1..(Len(dirs) - 1) : StrLess(dirs[i], dirs[i + 1])
    /\ Returned \subseteq tree
    /\ derr = "nil"
    /\ dpc = "again" => dirsAgain = dirs
    /\ NoTarget => dirs = <<>>

\* C9 witness: a second call after a first one that returned MaxDirs directories.
C9_Witness == dpc = "again" /\ Len(dirs) = MaxDirs /\ dirsAgain = dirs

Roots == {Seg_apps, Seg_infrastructure, Seg_operators, Seg_security}

\* C10 as stated: no returned path has `base` as its last segment and none lies
\* outside the four roots.
C10_NoBaseLastSegment ==
  Discovered =>
    \A d \in Returned : filepathBase(d) # Seg_base /\ Segments(d)[1] \in Roots

\* C10 amended: no returned path is a component's base directory <root>/<comp>/base;
\* every returned path lies below an `overlays` or `stack` directory of a component
\* of one of the four roots (an overlay that is itself named `base` is returned).
C10_NoComponentBaseDirectory ==
  Discovered =>
    \A d \in Returned :
       LET segs == Segments(d)
       IN  /\ segs[1] \in Roots
           /\ Len(segs) >= 4
           /\ \E i \in 3..(Len(segs) - 1) : segs[i] \in {Seg_overlays, Seg_stack}

\* C10 witness: the tree holds a component's base directory, which is not
\* returned, and an overlay named `base`, which is.
C10_Witness ==
  /\ dpc = "discovered"
  /\ \E d \in tree : Len(Segments(d)) = 3 /\ filepathBase(d) = Seg_base /\ d \notin Returned
  /\ \E d \in Returned : filepathBase(d) = Seg_base

(***************************************************************************)
(* helm.Template (pkg/helm/runner.go) and the OCI helpers of pkg/sync.     *)
(* A set of names stands for the temporary files and directories that      *)
(* exist in the operating system's temporary directory.                    *)
(***************************************************************************)
Space == <<" ">>

\* the registry host names without the slash that follows them
ociRegistryHosts ==
  << <<"d","o","c","k","e","r",".","i","o">>, <<"g","h","c","r",".","i","o">>, <<"q","u","a","y",".","i","o">>, <<"r","e","g","i","s","t","r","y",".","k","8","s",".","i","o">>, <<"g","c","r",".","i","o">>,
     <<"p","u","b","l","i","c",".","e","c","r",".","a","w","s">>, <<"m","c","r",".","m","i","c","r","o","s","o","f","t",".","c","o","m">> >>

ociRegistryPrefixes ==
  << <<"d","o","c","k","e","r",".","i","o","/">>, <<"g","h","c","r",".","i","o","/">>, <<"q","u","a","y",".","i","o","/">>, <<"r","e","g","i","s","t","r","y",".","k","8","s",".","i","o","/">>, <<"g","c","r",".","i","o","/">>,
     <<"p","u","b","l","i","c",".","e","c","r",".","a","w","s","/">>, <<"m","c","r",".","m","i","c","r","o","s","o","f","t",".","c","o","m","/">> >>

OciScheme == <<"o","c","i",":","/","/">>

IsOCIRegistry(url) ==
  \/ HasPrefix(url, OciScheme)
  \/ \E i \in 1..Len(ociRegistryPrefixes) : HasPrefix(url, ociRegistryPrefixes[i])

NormalizeOCIURL(url) == IF HasPrefix(url, OciScheme) THEN url ELSE OciScheme \o url

\* the name os.CreateTemp("", "helm-values-*.yaml") returns
TempValuesFile == <<"h","e","l","m","-","v","a","l","u","e","s","-","1",".","y","a","m","l">>

\* a removal that is never carried out
osRemoveForgotten(files, name) == files

\* os.Remove / os.RemoveAll of a temporary file or directory
osRemove(files, name) == files \ {name}

RECURSIVE ValuesFlags(_)
ValuesFlags(valueFiles) ==
  IF Len(valueFiles) = 0 THEN <<>>
  ELSE << <<"-","-","v","a","l","u","e","s">>, valueFiles[1] >> \o ValuesFlags(Tail(valueFiles))

\* the arguments Template hands to the helm binary
TemplateArgs(o) ==
  LET releaseName == IF o.ReleaseName = <<>> THEN o.Chart ELSE o.ReleaseName
      a1 == << <<"t","e","m","p","l","a","t","e">>, releaseName, o.Chart >>
      a2 == IF o.RepoURL # <<>> THEN a1 \o << <<"-","-","r","e","p","o">>, o.RepoURL >> ELSE a1
      a3 == IF o.Version # <<>> THEN a2 \o << <<"-","-","v","e","r","s","i","o","n">>, o.Version >> ELSE a2
      a4 == IF o.Namespace # <<>> THEN a3 \o << <<"-","-","n","a","m","e","s","p","a","c","e">>, o.Namespace >> ELSE a3
      a5 == a4 \o ValuesFlags(o.ValueFiles)
      a6 == IF o.InlineValues # <<>> THEN a5 \o << <<"-","-","v","a","l","u","e","s">>, TempValuesFile >> ELSE a5
  IN  a6 \o << <<"-","-","i","n","c","l","u","d","e","-","c","r","d","s">> >>

CreateTempFailed == <<"f","a","i","l","e","d"," ","t","o"," ","c","r","e","a","t","e"," ","t","e","m","p"," ","f","i","l","e"," ","f","o","r"," ","i","n","l","i","n","e"," ","v","a","l","u","e","s",":"," ">>

WriteInlineFailed == <<"f","a","i","l","e","d"," ","t","o"," ","w","r","i","t","e"," ","i","n","l","i","n","e"," ","v","a","l","u","e","s",":"," ">>

HelmTemplateFailed == <<"h","e","l","m"," ","t","e","m","p","l","a","t","e"," ","f","a","i","l","e","d",":"," ">>

OutputLabel == <<"\n","O","u","t","p","u","t",":"," ">>

\* what can happen to one call of Template: the fault that strikes it, the
\* text of the underlying error and the combined output of the helm binary
TemplateFaults(o) ==
  IF o.InlineValues # <<>> THEN {"none", "create", "write", "helm"} ELSE {"none", "helm"}

\* Template(opts): the result and the temporary files that exist when it
\* returns; env.fault is the step that fails, env.cause the text of the
\* underlying error, env.output what the helm binary printed
Template(o, env, files) ==
  LET Failed(msg, cmd, out) ==
        [Output |-> out, Passed |-> FALSE, Error |-> msg, Command |-> cmd]
      inline   == o.InlineValues # <<>>
      created  == IF inline THEN files \cup {TempValuesFile} ELSE files
      atReturn == IF inline THEN osRemove(created, TempValuesFile) ELSE created
      command  == <<"h","e","l","m"," ">> \o Join(TemplateArgs(o), Space)
  IN  IF inline /\ env.fault = "create"
        THEN [res |-> Failed(CreateTempFailed \o env.cause, <<>>, <<>>), files |-> files,
              created |-> FALSE]
      ELSE IF inline /\ env.fault = "write"
        THEN [res |-> Failed(WriteInlineFailed \o env.cause, <<>>, <<>>), files |-> atReturn,
              created |-> TRUE]
      ELSE IF env.fault = "helm"
        THEN [res |-> Failed(HelmTemplateFailed \o env.cause \o OutputLabel \o env.output,
                             command, env.output),
              files |-> atReturn, created |-> inline]
      ELSE [res |-> [Output |-> env.output, Passed |-> TRUE, Error |-> <<>>,
                     Command |-> command],
            files |-> atReturn, created |-> inline]

(***************************************************************************)
(* The sync run (Syncer.Run).  A tree is the set of the files of a commit  *)
(* or of the working tree of the clone; `remote` maps every branch of the  *)
(* shadow repository to the tree of its head; `world` is the source        *)
(* repository and the tools of the machine the run executes on.            *)
(***************************************************************************)
MaxTime == 2

MaxFaults == 1

Main == <<"m","a","i","n">>

PR7 == <<"p","r","-","7">>

PR8 == <<"p","r","-","8">>

Rendered == <<"r","e","n","d","e","r","e","d">>

ManifestName == <<"m","a","n","i","f","e","s","t",".","y","a","m","l">>

MetaName == <<"_","m","e","t","a",".","j","s","o","n">>

ReadmeName == <<"R","E","A","D","M","E",".","m","d">>

Seg_helm == <<"h","e","l","m">>

ShadowSlug == <<"o","/","s","h","a","d","o","w">>

SourceSlug == <<"o","/","k","8","s">>

WorkspaceDir == <<"s","h","a","d","o","w","-","s","y","n","c","-","1">>

File(p, c) == [path |-> p, content |-> c]

\* os.WriteFile on a tree: the file is created or replaced
WriteFile(t, p, c) == {f \in t : f.path # p} \cup {File(p, c)}

\* os.RemoveAll on a tree: the directory and everything below it
RemoveAllUnder(t, d) == {f \in t : ~(f.path = d \/ HasPrefix(f.path, d \o Slash))}

Readme == File(ReadmeName, <<"#"," ","S","h","a","d","o","w"," ","M","a","n","i","f","e","s","t","s">>)

\* decimal digits of a small number, as fmt.Sprintf("%d") prints them
Digit(n) == <<"0","1","2","3","4","5","6","7","8","9">>[n + 1]

\* New(opts): the defaults
New(o, unix) ==
  LET o1 == IF o.BaseBranch = <<>> THEN [o EXCEPT !.BaseBranch = Main] ELSE o
      o2 == IF o1.OutputRoot = <<>> THEN [o1 EXCEPT !.OutputRoot = Rendered] ELSE o1
  IN  IF o2.Branch # <<>> THEN o2
      ELSE IF o2.PRNumber # <<>> THEN [o2 EXCEPT !.Branch = <<"p","r","-">> \o o2.PRNumber]
      ELSE [o2 EXCEPT !.Branch = <<"l","o","c","a","l","-">> \o <<Digit(unix)>>]

\* the options a caller passes
RawOptions ==
  [RepoPath : {<<"/","s","r","c">>}, Clusters : {<<>>}, ShadowRepo : {ShadowSlug},
   BaseBranch : {<<>>}, Branch : {<<>>, Main}, OutputRoot : {<<>>},
   ForcePush : {TRUE}, RedactSecrets : BOOLEAN, CleanupMerged : BOOLEAN,
   SourceCommit : {<<"0","1","2","3","4","5","6","7","8","9">>}, SourceRepo : {<<>>, SourceSlug},
   PRNumber : {<<"7">>}]

\* Result as Run initialises it
NewResult(o) ==
  [ShadowRepoSlug |-> o.ShadowRepo, BaseBranch |-> o.BaseBranch, Branch |-> o.Branch,
   CompareURL |-> <<>>, CommitSHA |-> <<>>,
   RenderedDirs |-> 0, SkippedDirs |-> 0, FailedDirs |-> 0,
   HelmAppsRendered |-> 0, HelmAppsFailed |-> 0,
   Failures |-> <<>>, Cleanup |-> <<>>]

\* what kustomize build prints for a directory of the source repository
SecretManifest == <<"k","i","n","d",":"," ","S","e","c","r","e","t","\n","d","a","t","a",":","\n"," "," ","k",":"," ","v">>

PlainManifest == <<"z",":"," ","w">>

BuildOutput(dir) == IF HasPrefix(dir, Seg_apps) THEN SecretManifest ELSE PlainManifest

\* the Applications with Helm sources of the source repository, one entry
\* per Helm source in the order DiscoverHelmApplications and GetHelmSources
\* yield them
HelmSource(name, chart, repoURL, valueFiles, values, releaseName) ==
  [Name |-> name, Namespace |-> <<"n","s">>, RepoURL |-> repoURL, Chart |-> chart,
   TargetRevision |-> <<"1",".","0">>, ValueFiles |-> valueFiles, Values |-> values,
   ReleaseName |-> releaseName]

SourceA1 ==
  HelmSource(AppA, <<"w","e","b">>, <<"h","t","t","p","s",":","/","/","c","h","a","r","t","s",".","e","x","a","m","p","l","e">>, << <<"$","v","a","l","u","e","s","/","v",".","y","a","m","l">> >>,
             <<"k",":"," ","v">>, <<>>)

SourceA2 == HelmSource(AppA, <<"g","w">>, <<"d","o","c","k","e","r",".","i","o","/","e","n","v","o","y">>, <<>>, <<>>, <<"r","e","l">>)

HelmWorlds == { <<SourceA1, SourceA2>> }

SyncTrees ==
  { {},
    {Path(<<Seg_infrastructure, <<"i">>, Seg_overlays, ClusterH>>),
     Path(<<Seg_apps, AppA, Seg_overlays, ClusterH, EnvP>>),
     Path(<<Seg_apps, AppA, Seg_base>>)} }

Worlds == [tree : SyncTrees, helmInstalled : BOOLEAN, apps : HelmWorlds]

\* the shadow repository before the run: without history, with a base
\* branch only, or with PR branches left by earlier runs
StaleTree == {Readme, File(Path(<<Rendered, <<"o","l","d">>, ManifestName>>), PlainManifest)}

Remotes ==
  { <<>>,
    (Main :> StaleTree) @@ (PR7 :> StaleTree) @@ (PR8 :> StaleTree) }

NoClone == [present |-> FALSE, hasHead |-> FALSE, head |-> {}, work |-> {}, branch |-> <<>>]

HasBranch(r, b) == b \in DOMAIN r

\* the targets of the run that were skipped or failed so far
NonFatal(r) == r.SkippedDirs + r.FailedDirs + r.HelmAppsFailed

\* a target may be skipped or fail while the run has seen fewer than
\* MaxFaults of them; a rerun is explored without them
FaultAllowed == run = 1 /\ NonFatal(sres) < MaxFaults

\* the commits of the shadow repository: the log of every remote branch and
\* of the branch checked out in the clone (oldest first), the log of the
\* base branch the target was created from, the log pushed for the target,
\* the log the remote target branch had when Run began and whether Run
\* found the repository without commits
InitialCommits(r, branch) ==
  LET logs == IF DOMAIN r = {} THEN <<>>
              ELSE (Main :> <<"c0">>) @@ (PR7 :> <<"c0", "p7">>) @@ (PR8 :> <<"c0", "p8">>)
  IN  [remote |-> logs, local |-> <<>>, base |-> <<>>, pushed |-> <<>>,
       prior |-> IF branch \in DOMAIN logs THEN logs[branch] ELSE <<>>,
       bootstrap |-> FALSE]

\* the commit CommitAll creates in a run
RunCommit(n) == IF n = 1 THEN "r1" ELSE "r2"

\* the commits earlier syncs made
SyncCommits == {"p7", "p8", "r1", "r2"}

\* a checkout that switches to the target branch as the remote has it
\* instead of resetting it to the base branch
CheckoutLogKeepingTarget(k, bootstrap, pushed, ok, baseBranch) ==
  LET based == IF bootstrap THEN <<"init">> ELSE k.remote[baseBranch]
  IN  [k EXCEPT !.remote = IF pushed THEN (baseBranch :> <<"init">>) @@ @ ELSE @,
                !.local = IF ok THEN (IF k.prior # <<>> THEN k.prior ELSE based) ELSE @,
                !.base = IF ok THEN based ELSE @,
                !.bootstrap = bootstrap]

\* CheckoutBranch on the commits: an empty repository gets the initial
\* commit on the base branch, which is pushed; otherwise the base branch is
\* checked out as the remote has it; `checkout -B` then puts the target
\* branch on that commit
CheckoutLog(k, bootstrap, pushed, ok, baseBranch) ==
  LET based == IF bootstrap THEN <<"init">> ELSE k.remote[baseBranch]
  IN  [k EXCEPT !.remote = IF pushed THEN (baseBranch :> <<"init">>) @@ @ ELSE @,
                !.local = IF ok THEN based ELSE @,
                !.base = IF ok THEN based ELSE @,
                !.bootstrap = bootstrap]

InitSync ==
  /\ \E raw \in RawOptions : opts = New(raw, 1)
  /\ world \in Worlds
  /\ remote \in Remotes
  /\ clone = NoClone
  /\ tmp = {}
  /\ now = 1
  /\ spc = "discover"
  /\ sdirs = <<>>
  /\ ti = 1
  /\ hi = 1
  /\ sres = NewResult(opts)
  /\ serr = "none"
  /\ steps = <<>>
  /\ made = FALSE
  /\ pushes = <<>>
  /\ run = 1
  /\ first = <<>>
  /\ commits = InitialCommits(remote, opts.Branch)
  /\ RedactIdle
  /\ DiscoverIdle
  /\ CleanupIdle
  /\ HelmTestIdle
  /\ CallsIdle

\* one entry of the history `steps`: a step Run has executed, the target it
\* worked on and what became of it (kustomize and Helm steps: "skipped",
\* "failed" or "rendered"), and whether the step let the run go on
DidTarget(name, target, outcome) ==
  [step |-> name, target |-> target, ok |-> TRUE, outcome |-> outcome]

Did(name, target, ok) ==
  [step |-> name, target |-> target, ok |-> ok, outcome |-> "none"]

\* return from Run: the deferred os.RemoveAll(tempDir) runs when it was
\* registered (every return after line 301)
Return(err, registered) ==
  /\ spc' = "returned"
  /\ serr' = err
  /\ tmp' = IF registered THEN osRemove(tmp, WorkspaceDir) ELSE tmp
  /\ clone' = IF registered /\ WorkspaceDir \notin osRemove(tmp, WorkspaceDir)
                THEN NoClone ELSE clone

\* 1. discover the directories to render
SyncDiscover ==
  /\ spc = "discover"
  /\ \E ok \in BOOLEAN :
       IF ok
         THEN /\ \E order \in MapOrders(DirSet(world.tree, opts.Clusters)) :
                    sdirs' = SortStrings(order)
              /\ steps' = Append(steps, Did("discover", <<>>, TRUE))
              /\ spc' = "workspace"
              /\ UNCHANGED <<serr, tmp, clone>>
         ELSE /\ steps' = Append(steps, Did("discover", <<>>, FALSE))
              /\ Return("failed to discover directories", FALSE)
              /\ UNCHANGED sdirs
  /\ UNCHANGED <<opts, commits, world, remote, now, ti, hi, sres, made, pushes, run, first>>
  /\ UNCHANGED <<redactVars, discoverVars, cleanupVars, helmTestVars, callVars>>

\* 2. os.MkdirTemp and the deferred removal
MakeWorkspace ==
  /\ spc = "workspace"
  /\ \E ok \in BOOLEAN :
       IF ok
         THEN /\ tmp' = tmp \cup {WorkspaceDir}
              /\ steps' = Append(steps, Did("workspace", <<>>, TRUE))
              /\ spc' = "clone"
              /\ UNCHANGED <<serr, clone>>
         ELSE /\ steps' = Append(steps, Did("workspace", <<>>, FALSE))
              /\ Return("failed to create temp directory", FALSE)
  /\ UNCHANGED <<opts, commits, world, remote, now, sdirs, ti, hi, sres, made, pushes, run, first>>
  /\ UNCHANGED <<redactVars, discoverVars, cleanupVars, helmTestVars, callVars>>

\* 2. Clone: the clone holds the default branch, or nothing when the
\* repository has no history
CloneShadow ==
  /\ spc = "clone"
  /\ \E ok \in BOOLEAN :
       IF ok
         THEN /\ clone' = IF HasBranch(remote, Main)
                            THEN [present |-> TRUE, hasHead |-> TRUE, head |-> remote[Main],
                                  work |-> remote[Main], branch |-> Main]
                            ELSE [present |-> TRUE, hasHead |-> FALSE, head |-> {},
                                  work |-> {}, branch |-> <<>>]
              /\ commits' = [commits EXCEPT !.local = IF HasBranch(remote, Main)
                                                        THEN commits.remote[Main]
                                                        ELSE <<>>]
              /\ steps' = Append(steps, Did("clone", <<>>, TRUE))
              /\ spc' = "checkout"
              /\ UNCHANGED <<serr, tmp>>
         ELSE /\ steps' = Append(steps, Did("clone", <<>>, FALSE))
              /\ Return("failed to clone shadow repo", TRUE)
              /\ UNCHANGED commits
  /\ UNCHANGED <<opts, world, remote, now, sdirs, ti, hi, sres, made, pushes, run, first>>
  /\ UNCHANGED <<redactVars, discoverVars, cleanupVars, helmTestVars, callVars>>

\* CheckoutBranch: what it leaves behind.  `fault` is "none", "early" (a
\* command before the final checkout -B fails, a failed push of the initial
\* commit included) or "late" (checkout -B fails).
CheckoutBranch(c, r, baseBranch, branch, fault) ==
  LET bootstrap == ~c.hasHead
      based     == IF bootstrap THEN {Readme} ELSE r[baseBranch]
      pushed    == bootstrap /\ fault # "early"
  IN  [err    |-> fault # "none",
       remote |-> IF pushed THEN (baseBranch :> {Readme}) @@ r ELSE r,
       pushed |-> pushed,
       clone  |-> IF fault = "none"
                    THEN [c EXCEPT !.hasHead = TRUE, !.head = based, !.work = based,
                                   !.branch = branch]
                    ELSE c]

CheckoutFaults(c, r, baseBranch) ==
  IF c.hasHead /\ ~HasBranch(r, baseBranch) THEN {"early"} ELSE {"none", "early", "late"}

\* 3. check the branch out, created or reset from the base branch
SyncCheckout ==
  /\ spc = "checkout"
  /\ \E fault \in CheckoutFaults(clone, remote, opts.BaseBranch) :
       LET out == CheckoutBranch(clone, remote, opts.BaseBranch, opts.Branch, fault)
       IN  /\ remote' = out.remote
           /\ commits' = CheckoutLog(commits, ~clone.hasHead, out.pushed, ~out.err,
                                     opts.BaseBranch)
           /\ pushes' = IF out.pushed
                          THEN Append(pushes, [branch |-> opts.BaseBranch, by |-> "checkout"])
                          ELSE pushes
           /\ steps' = Append(steps, Did("checkout", <<>>, ~out.err))
           /\ IF out.err
                THEN Return("failed to checkout branch", TRUE)
                ELSE /\ clone' = out.clone
                     /\ spc' = "clear"
                     /\ UNCHANGED <<serr, tmp>>
  /\ UNCHANGED <<opts, world, now, sdirs, ti, hi, sres, made, run, first>>
  /\ UNCHANGED <<redactVars, discoverVars, cleanupVars, helmTestVars, callVars>>

OutputDir == opts.OutputRoot

\* 4. clear and recreate the output directory
ClearOutput ==
  /\ spc = "clear"
  /\ \E ok \in BOOLEAN :
       IF ok
         THEN /\ clone' = [clone EXCEPT !.work = RemoveAllUnder(clone.work, OutputDir)]
              /\ steps' = Append(steps, Did("clear", <<>>, TRUE))
              /\ spc' = "kustomize"
              /\ UNCHANGED <<serr, tmp>>
         ELSE /\ steps' = Append(steps, Did("clear", <<>>, FALSE))
              /\ Return("failed to clear output directory", TRUE)
  /\ UNCHANGED <<opts, commits, world, remote, now, sdirs, ti, hi, sres, made, pushes, run, first>>
  /\ UNCHANGED <<redactVars, discoverVars, cleanupVars, helmTestVars, callVars>>

ValuesPrefix == <<"$","v","a","l","u","e","s","/">>

\* filepath.Clean on the segments of a path: empty and "." segments go, ".."
\* takes the segment before it away (and goes itself at the root)
RECURSIVE CleanSegs(_, _, _)
CleanSegs(segs, acc, rooted) ==
  IF Len(segs) = 0 THEN acc
  ELSE LET seg == segs[1]
           up  == <<".",".">>
       IN  IF seg = <<>> \/ seg = <<".">> THEN CleanSegs(Tail(segs), acc, rooted)
           ELSE IF seg = up /\ Len(acc) > 0 /\ acc[Len(acc)] # up
             THEN CleanSegs(Tail(segs), SubSeq(acc, 1, Len(acc) - 1), rooted)
           ELSE IF seg = up /\ rooted THEN CleanSegs(Tail(segs), acc, rooted)
           ELSE CleanSegs(Tail(segs), Append(acc, seg), rooted)

filepathClean(p) ==
  LET rooted == HasPrefix(p, Slash)
      segs   == CleanSegs(Split(p, Slash), <<>>, rooted)
  IN  IF rooted THEN Slash \o Join(segs, Slash)
      ELSE IF Len(segs) = 0 THEN <<".">>
      ELSE Join(segs, Slash)

\* filepath.Join of two elements
filepathJoin(a, b) ==
  IF a = <<>> /\ b = <<>> THEN <<>>
  ELSE IF a = <<>> THEN filepathClean(b)
  ELSE IF b = <<>> THEN filepathClean(a)
  ELSE filepathClean(a \o Slash \o b)

\* fmt.Errorf("value file not found: %s (resolved from %s)", fullPath, vf)
ValueFileNotFound(fullPath, vf) ==
  <<"v","a","l","u","e"," ","f","i","l","e"," ","n","o","t"," ","f","o","u","n","d",":"," ">> \o fullPath \o <<" ","(","r","e","s","o","l","v","e","d"," ","f","r","o","m"," ">> \o vf \o <<")">>

\* ResolveValueFiles without the os.Stat of the resolved path
ResolveValueFilesUnchecked(valueFiles, repoPath, missing) ==
  [ok |-> TRUE,
   files |-> [i \in 1..Len(valueFiles) |->
                IF HasPrefix(valueFiles[i], ValuesPrefix)
                  THEN filepathJoin(repoPath, TrimPrefix(valueFiles[i], ValuesPrefix))
                  ELSE valueFiles[i]],
   err |-> <<>>]

\* argocd.ResolveValueFiles; `missing` holds the paths os.Stat does not find
\* in the source repository
RECURSIVE ResolveValueFilesFrom(_, _, _, _, _)
ResolveValueFilesFrom(valueFiles, i, resolved, repoPath, missing) ==
  IF i > Len(valueFiles) THEN [ok |-> TRUE, files |-> resolved, err |-> <<>>]
  ELSE LET vf == valueFiles[i]
       IN  IF HasPrefix(vf, ValuesPrefix)
             THEN LET localPath == TrimPrefix(vf, ValuesPrefix)
                      fullPath  == filepathJoin(repoPath, localPath)
                  IN  IF fullPath \in missing
                        THEN [ok |-> FALSE, files |-> <<>>,
                              err |-> ValueFileNotFound(fullPath, vf)]
                        ELSE ResolveValueFilesFrom(valueFiles, i + 1,
                                                   Append(resolved, fullPath),
                                                   repoPath, missing)
             ELSE ResolveValueFilesFrom(valueFiles, i + 1, Append(resolved, vf),
                                        repoPath, missing)

ResolveValueFiles(valueFiles, repoPath, missing) ==
  ResolveValueFilesFrom(valueFiles, 1, <<>>, repoPath, missing)

\* TemplateOptions without the release name of the source, so that
\* Template's own default applies
HelmOptionsNoReleaseName(src, valueFiles) ==
  LET oci == IsOCIRegistry(src.RepoURL)
  IN  [ReleaseName  |-> <<>>,
       Namespace    |-> src.Namespace,
       RepoURL      |-> IF oci THEN <<>> ELSE src.RepoURL,
       Chart        |-> IF oci THEN NormalizeOCIURL(src.RepoURL) \o Slash \o src.Chart
                        ELSE src.Chart,
       Version      |-> src.TargetRevision,
       ValueFiles   |-> valueFiles,
       InlineValues |-> src.Values]

\* the TemplateOptions renderHelmSource and testHelmSource build for a source
HelmOptions(src, valueFiles) ==
  LET releaseName == IF src.ReleaseName # <<>> THEN src.ReleaseName ELSE src.Name
      oci         == IsOCIRegistry(src.RepoURL)
  IN  [ReleaseName  |-> releaseName,
       Namespace    |-> src.Namespace,
       RepoURL      |-> IF oci THEN <<>> ELSE src.RepoURL,
       Chart        |-> IF oci THEN NormalizeOCIURL(src.RepoURL) \o Slash \o src.Chart
                        ELSE src.Chart,
       Version      |-> src.TargetRevision,
       ValueFiles   |-> valueFiles,
       InlineValues |-> src.Values]

\* what helm template prints for a chart
ChartManifest == <<"k","i","n","d",":"," ","S","e","c","r","e","t","\n","s","t","r","i","n","g","D","a","t","a",":","\n"," "," ","p",":"," ","w">>

ChartOutput(src) == IF src.Values # <<>> THEN ChartManifest ELSE PlainManifest

KustomizeFailed == <<"k","u","s","t","o","m","i","z","e"," ","b","u","i","l","d"," ","f","a","i","l","e","d",":"," ">>

ExitStatus == <<"e","x","i","t"," ","s","t","a","t","u","s"," ","1">>

\* the value files of the source repository that may be missing
MissingValueFiles == { {}, {<<"/","s","r","c","/","v",".","y","a","m","l">>} }

\* renderHelmSource: the TemplateResult and the temporary files left
renderHelmSource(src, repoPath, missing, env, files) ==
  LET resolved == IF Len(src.ValueFiles) > 0
                    THEN ResolveValueFiles(src.ValueFiles, repoPath, missing)
                    ELSE [ok |-> TRUE, files |-> <<>>, err |-> <<>>]
  IN  IF ~resolved.ok
        THEN [res |-> [Output |-> <<>>, Passed |-> FALSE,
                       Error |-> <<"f","a","i","l","e","d"," ","t","o"," ","r","e","s","o","l","v","e"," ","v","a","l","u","e"," ","f","i","l","e","s",":"," ">> \o resolved.err,
                       Command |-> <<>>],
              files |-> files, created |-> FALSE]
        ELSE Template(HelmOptions(src, resolved.files), env, files)

\* the environment of one Template call
TemplateEnvs(src) ==
  {[fault |-> f, cause |-> ExitStatus,
    output |-> IF f = "helm" THEN <<"E","r","r","o","r",":"," ","n","o","t"," ","f","o","u","n","d">> ELSE ChartOutput(src)] :
     f \in TemplateFaults([InlineValues |-> src.Values])}

Failure(dir, msg) == [Directory |-> dir, Error |-> msg]

\* a failed directory that is counted and not listed
FailDirCountedOnly(r, dir, msg) == [r EXCEPT !.FailedDirs = @ + 1]

\* result.FailedDirs++ and the append to result.Failures
FailDir(r, dir, msg) ==
  [r EXCEPT !.FailedDirs = @ + 1, !.Failures = Append(@, Failure(dir, msg))]

\* a failed Helm source that is listed and not counted
FailHelmUncounted(r, dir, msg) == [r EXCEPT !.Failures = Append(@, Failure(dir, msg))]

\* result.HelmAppsFailed++ and the append to result.Failures
FailHelm(r, dir, msg) ==
  [r EXCEPT !.HelmAppsFailed = @ + 1, !.Failures = Append(@, Failure(dir, msg))]

\* what can happen to the manifest file of a target: written, the directory
\* cannot be created, the file cannot be opened, or it is left truncated
\* by a failed write
WriteFaults == {"none", "mkdir", "open", "truncated"}

WriteError(fault) ==
  IF fault = "mkdir" THEN <<"f","a","i","l","e","d"," ","t","o"," ","c","r","e","a","t","e"," ","d","i","r","e","c","t","o","r","y",":"," ","E","A","C","C","E","S">>
  ELSE <<"f","a","i","l","e","d"," ","t","o"," ","w","r","i","t","e"," ","m","a","n","i","f","e","s","t",":"," ","E","N","O","S","P","C">>

\* the working tree after the attempt to write a manifest
AfterWrite(work, path, content, fault) ==
  IF fault = "none" THEN WriteFile(work, path, content)
  ELSE IF fault = "truncated" THEN WriteFile(work, path, <<>>)
  ELSE work

\* 5. one iteration of the loop over the kustomize directories
BuildTarget ==
  /\ spc = "kustomize"
  /\ ti <= Len(sdirs)
  /\ LET dir          == sdirs[ti]
         manifestPath == Path(<<OutputDir, dir, ManifestName>>)
     IN  \E build \in {"skipped", "failed", "passed"}, fault \in WriteFaults :
           /\ build # "passed" => fault = "none"
           /\ (build # "passed" \/ fault # "none") => FaultAllowed
           /\ IF build = "skipped"
                THEN /\ sres' = [sres EXCEPT !.SkippedDirs = @ + 1]
                     /\ UNCHANGED clone
              ELSE IF build = "failed"
                THEN /\ sres' = FailDir(sres, dir, KustomizeFailed \o ExitStatus)
                     /\ UNCHANGED clone
              ELSE LET content == IF opts.RedactSecrets
                                     THEN RedactSecrets(BuildOutput(dir))
                                     ELSE BuildOutput(dir)
                   IN  /\ clone' = [clone EXCEPT
                                      !.work = AfterWrite(@, manifestPath, content, fault)]
                       /\ sres' = IF fault = "none"
                                    THEN [sres EXCEPT !.RenderedDirs = @ + 1]
                                    ELSE FailDir(sres, dir, WriteError(fault))
           /\ steps' = Append(steps, DidTarget("kustomize", dir,
                                 IF build = "skipped" THEN "skipped"
                                 ELSE IF build = "failed" \/ fault # "none" THEN "failed"
                                 ELSE "rendered"))
  /\ ti' = ti + 1
  /\ UNCHANGED <<opts, commits, world, remote, tmp, now, spc, sdirs, hi, serr, made, pushes,
                 run, first>>
  /\ UNCHANGED <<redactVars, discoverVars, cleanupVars, helmTestVars, callVars>>

\* 5b. helm.IsHelmInstalled and argocd.DiscoverHelmApplications: without
\* helm, or when the discovery fails, no Helm source is rendered
HelmDiscover ==
  /\ spc = "kustomize"
  /\ ti > Len(sdirs)
  /\ \E found \in BOOLEAN :
       /\ ~world.helmInstalled => ~found
       /\ spc' = IF found THEN "helm" ELSE "meta"
  /\ UNCHANGED <<opts, commits, world, remote, clone, tmp, now, sdirs, ti, hi, sres, serr, steps,
                 made, pushes, run, first>>
  /\ UNCHANGED <<redactVars, discoverVars, cleanupVars, helmTestVars, callVars>>

HelmDir(src) == Path(<<Seg_apps, src.Name, Seg_helm>>)

\* what one iteration of the Helm loop records in the Result: a render or
\* write failure of the source, or one more rendered Helm source
HelmRecorded(r, src, res, fault) ==
  IF ~res.Passed THEN FailHelm(r, HelmDir(src), res.Error)
  ELSE IF fault = "none" THEN [r EXCEPT !.HelmAppsRendered = @ + 1]
  ELSE FailHelm(r, HelmDir(src), WriteError(fault))

\* 5b. one iteration of the loops over the Helm sources
RenderHelm ==
  /\ spc = "helm"
  /\ hi <= Len(world.apps)
  /\ LET src          == world.apps[hi]
         manifestPath == Path(<<OutputDir, HelmDir(src), ManifestName>>)
     IN  \E missing \in MissingValueFiles, env \in TemplateEnvs(src), fault \in WriteFaults :
           LET out == renderHelmSource(src, opts.RepoPath, missing, env, tmp)
           IN  /\ ~out.res.Passed => fault = "none"
               /\ (~out.res.Passed \/ fault # "none") => FaultAllowed
               /\ tmp' = out.files
               /\ IF ~out.res.Passed
                    THEN UNCHANGED clone
                    ELSE LET content == IF opts.RedactSecrets
                                           THEN RedactSecrets(out.res.Output)
                                           ELSE out.res.Output
                         IN  clone' = [clone EXCEPT
                               !.work = AfterWrite(@, manifestPath, content, fault)]
               /\ sres' = HelmRecorded(sres, src, out.res, fault)
               /\ steps' = Append(steps, DidTarget("helm", HelmDir(src),
                                     IF out.res.Passed /\ fault = "none"
                                       THEN "rendered" ELSE "failed"))
  /\ hi' = hi + 1
  /\ UNCHANGED <<opts, commits, world, remote, now, spc, sdirs, ti, serr, made, pushes, run, first>>
  /\ UNCHANGED <<redactVars, discoverVars, cleanupVars, helmTestVars, callVars>>

(***************************************************************************)
(* Branch cleanup (CleanupStaleBranches, getPRState).                      *)
(***************************************************************************)
PRPrefix == <<"p","r","-">>

IsDigit(c) == c \in {"0","1","2","3","4","5","6","7","8","9"}

\* a pattern that takes whatever follows pr- for the number
prNumberOfLoose(branch) ==
  IF HasPrefix(branch, PRPrefix) /\ Len(branch) > Len(PRPrefix)
    THEN SubSeq(branch, Len(PRPrefix) + 1, Len(branch))
    ELSE <<>>

\* prPattern ^pr-(\d+)$ : the captured number, <<>> when there is no match
prNumberOf(branch) ==
  IF /\ HasPrefix(branch, PRPrefix)
     /\ Len(branch) > Len(PRPrefix)
     /\ \A i \in (Len(PRPrefix) + 1)..Len(branch) : IsDigit(branch[i])
    THEN SubSeq(branch, Len(PRPrefix) + 1, Len(branch))
    ELSE <<>>

\* the answers of the GitHub API to GET /repos/<repo>/pulls/<n>: a transport
\* error, or a status code with the decoded body (state, merged_at) or a
\* body that does not decode
Response(fault, code, state, mergedAt) ==
  [fault |-> fault, StatusCode |-> code, State |-> state, MergedAt |-> mergedAt]

Responses ==
  { Response("transport", 0, "", ""),
    Response("none", 404, "", ""),
    Response("none", 403, "", ""),
    Response("decode", 200, "", ""),
    Response("none", 200, "open", ""),
    Response("none", 200, "closed", ""),
    Response("none", 200, "closed", "2024-01-01T00:00:00Z") }

\* getPRState: the state and whether an error is returned
getPRState(resp) ==
  IF resp.fault = "transport" THEN [state |-> "", err |-> "transport"]
  ELSE IF resp.StatusCode = 404 THEN [state |-> "not_found", err |-> "nil"]
  ELSE IF resp.StatusCode # 200 THEN [state |-> "", err |-> "GitHub API returned"]
  ELSE IF resp.fault = "decode" THEN [state |-> "", err |-> "decode"]
  ELSE IF resp.MergedAt # "" THEN [state |-> "merged", err |-> "nil"]
  ELSE [state |-> resp.State, err |-> "nil"]

NewCleanupResult ==
  [CheckedBranches |-> <<>>, DeletedBranches |-> <<>>, SkippedBranches |-> <<>>,
   Errors |-> <<>>]

\* the body of the loop for a PR whose state always looks closed
CleanupBranchIgnoringState(res, branch, resp, deleteOk, dryRun) ==
  LET checked == [res EXCEPT !.CheckedBranches = Append(@, branch)]
  IN  IF prNumberOf(branch) = <<>>
        THEN [res |-> checked, deleted |-> FALSE, queried |-> FALSE]
      ELSE [res |-> [checked EXCEPT !.DeletedBranches = Append(@, branch)],
            deleted |-> ~dryRun, queried |-> FALSE]

\* the body of the loop of CleanupStaleBranches for one branch: the result,
\* whether the branch was deleted from the remote and whether getPRState
\* was called for it
CleanupBranch(res, branch, resp, deleteOk, dryRun) ==
  LET checked  == [res EXCEPT !.CheckedBranches = Append(@, branch)]
      prNumber == prNumberOf(branch)
      looked   == getPRState(resp)
  IN  IF prNumber = <<>> THEN [res |-> checked, deleted |-> FALSE, queried |-> FALSE]
      ELSE IF looked.err # "nil"
        THEN [res |-> [checked EXCEPT !.Errors =
                         Append(@, [failed |-> "check", what |-> prNumber])],
              deleted |-> FALSE, queried |-> TRUE]
      ELSE IF looked.state = "open"
        THEN [res |-> [checked EXCEPT !.SkippedBranches = Append(@, branch)],
              deleted |-> FALSE, queried |-> TRUE]
      ELSE IF ~dryRun /\ ~deleteOk
        THEN [res |-> [checked EXCEPT !.Errors =
                         Append(@, [failed |-> "delete", what |-> branch])],
              deleted |-> FALSE, queried |-> TRUE]
      ELSE [res |-> [checked EXCEPT !.DeletedBranches = Append(@, branch)],
            deleted |-> ~dryRun, queried |-> TRUE]

\* listRemotePRBranches: the heads refs/heads/pr-* of the remote, in the
\* order of their names
PRBranchLists(branches) ==
  {SortStrings(order) : order \in MapOrders({b \in branches : HasPrefix(b, PRPrefix)})}

\* the whole loop, for the answers `resp` of the API and the outcomes
\* `deleteOk` of the deletions, both per position of the list
RECURSIVE CleanupLoop(_, _, _, _, _, _)
CleanupLoop(acc, listed, i, resp, deleteOk, dryRun) ==
  IF i > Len(listed) THEN acc
  ELSE LET out == CleanupBranch(acc.res, listed[i], resp[i], deleteOk[i], dryRun)
       IN  CleanupLoop([res |-> out.res,
                        gone |-> IF out.deleted THEN acc.gone \cup {listed[i]} ELSE acc.gone],
                       listed, i + 1, resp, deleteOk, dryRun)

DotGit == <<".","g","i","t">>

SchemeMark == <<":","/","/">>

HttpsScheme == <<"h","t","t","p","s",":","/","/">>

GitAt == <<"g","i","t","@">>

\* strings.Count for a one-character substring
CountOf(s, c) == Cardinality({i \in 1..Len(s) : s[i] = c})

\* ParseRepoSlug: owner/repo out of a slug, an https URL or an SSH URL
ParseRepoSlug(input) ==
  IF ~Contains(input, SchemeMark) /\ ~HasPrefix(input, GitAt) /\ CountOf(input, "/") = 1
    THEN [slug |-> TrimSuffix(input, DotGit), ok |-> TRUE]
  ELSE IF HasPrefix(input, HttpsScheme)
    THEN LET rest == SubSeq(input, Len(HttpsScheme) + 1, Len(input))
             at   == Index(rest, Slash)
             path == IF at = 0 THEN <<>> ELSE SubSeq(rest, at, Len(rest))
         IN  [slug |-> TrimSuffix(TrimSuffix(TrimPrefix(path, Slash), Slash), DotGit),
              ok |-> TRUE]
  ELSE IF HasPrefix(input, GitAt)
    THEN LET rest  == SubSeq(input, Len(GitAt) + 1, Len(input))
             colon == Index(rest, <<":">>)
             tail  == SubSeq(rest, colon + 1, Len(rest))
             group == IF Len(tail) > Len(DotGit) THEN TrimSuffix(tail, DotGit) ELSE tail
         IN  IF colon > 1 /\ Len(tail) > 0 /\ ~Contains(input, NL)
               THEN [slug |-> group, ok |-> TRUE]
               ELSE [slug |-> <<>>, ok |-> FALSE]
  ELSE [slug |-> <<>>, ok |-> FALSE]

\* CompareURL: the GitHub compare URL, empty for an unusable slug
CompareURL(repoSlug, baseBranch, headBranch) ==
  LET slug   == TrimSuffix(repoSlug, DotGit)
      isURL  == Contains(slug, SchemeMark) \/ HasPrefix(slug, GitAt)
      parsed == ParseRepoSlug(slug)
  IN  IF ~Contains(slug, Slash) THEN <<>>
      ELSE IF isURL /\ ~parsed.ok THEN <<>>
      ELSE <<"h","t","t","p","s",":","/","/","g","i","t","h","u","b",".","c","o","m","/">> \o (IF isURL THEN parsed.slug ELSE slug)
             \o <<"/","c","o","m","p","a","r","e","/">> \o baseBranch \o <<".",".",".">> \o headBranch

\* what git rev-parse HEAD prints
RevParseOutput == <<"0","a","1","b","2","c","3","d","4","e","5","f","\n">>

ShortSha == 7

\* what git status --porcelain prints of the staged working tree: nothing
\* when it equals the head
Status(c) == IF c.work = c.head THEN <<>> ELSE <<"M"," ","f","\n">>

\* the faults that can strike CommitAll: git add, git status, git commit and
\* git rev-parse; the last two run only when there is something to commit
CommitFaults(c) ==
  IF Status(c) = <<>> THEN {"none", "add", "status"}
  ELSE {"none", "add", "status", "commit", "sha"}

\* CommitAll that commits whatever git status prints
CommitAllAlways(c, fault) ==
  IF fault \in {"add", "status", "commit"}
    THEN [changed |-> FALSE, sha |-> <<>>, err |-> TRUE, head |-> c.head, created |-> FALSE]
  ELSE IF fault = "sha"
    THEN [changed |-> TRUE, sha |-> <<>>, err |-> TRUE, head |-> c.work, created |-> TRUE]
  ELSE LET sha == TrimSpace(RevParseOutput)
       IN  [changed |-> TRUE,
            sha |-> IF Len(sha) > ShortSha THEN SubSeq(sha, 1, ShortSha) ELSE sha,
            err |-> FALSE, head |-> c.work, created |-> TRUE]

\* CommitAll: (changed, sha, err), the head of the clone afterwards and
\* whether git commit created a commit.  git status --porcelain of the
\* staged working tree is empty exactly when it equals the head.
CommitAll(c, fault) ==
  LET statusEmpty == Len(TrimSpace(Status(c))) = 0
  IN  IF fault \in {"add", "status"}
        THEN [changed |-> FALSE, sha |-> <<>>, err |-> TRUE, head |-> c.head,
              created |-> FALSE]
      ELSE IF statusEmpty
        THEN [changed |-> FALSE, sha |-> <<>>, err |-> FALSE, head |-> c.head,
              created |-> FALSE]
      ELSE IF fault = "commit"
        THEN [changed |-> FALSE, sha |-> <<>>, err |-> TRUE, head |-> c.head,
              created |-> FALSE]
      ELSE IF fault = "sha"
        THEN [changed |-> TRUE, sha |-> <<>>, err |-> TRUE, head |-> c.work,
              created |-> TRUE]
      ELSE LET sha == TrimSpace(RevParseOutput)
           IN  [changed |-> TRUE,
                sha |-> IF Len(sha) > ShortSha THEN SubSeq(sha, 1, ShortSha) ELSE sha,
                err |-> FALSE, head |-> c.work, created |-> TRUE]

Metadata(o, generatedAt) ==
  [SourceRepo |-> o.SourceRepo, SourceSHA |-> o.SourceCommit, PRNumber |-> o.PRNumber,
   Clusters |-> o.Clusters, GeneratedAt |-> generatedAt]

\* 6. write _meta.json, stamped with the second the clock shows
WriteMeta ==
  /\ \/ spc = "meta"
     \/ spc = "helm" /\ hi > Len(world.apps)
  /\ \E ok \in BOOLEAN, t \in now..MaxTime :
       /\ now' = t
       /\ IF ok
            THEN /\ clone' = [clone EXCEPT !.work =
                                WriteFile(@, Path(<<OutputDir, MetaName>>), Metadata(opts, t))]
                 /\ steps' = Append(steps, Did("meta", <<>>, TRUE))
                 /\ spc' = "commit"
                 /\ UNCHANGED <<serr, tmp>>
            ELSE /\ steps' = Append(steps, Did("meta", <<>>, FALSE))
                 /\ Return("failed to write metadata", TRUE)
  /\ UNCHANGED <<opts, commits, world, remote, sdirs, ti, hi, sres, made, pushes, run, first>>
  /\ UNCHANGED <<redactVars, discoverVars, cleanupVars, helmTestVars, callVars>>

\* a commit step that goes on to push whether or not CommitAll failed
SyncCommitNoReturn ==
  /\ spc = "commit"
  /\ \E fault \in CommitFaults(clone) :
       LET out == CommitAll(clone, fault)
       IN  /\ made' = out.created
           /\ commits' = IF out.created
                            THEN [commits EXCEPT !.local = Append(@, RunCommit(run))]
                            ELSE commits
           /\ steps' = Append(steps, Did("commit", Status(clone), ~out.err))
           /\ clone' = [clone EXCEPT !.head = out.head]
           /\ sres' = IF out.changed THEN [sres EXCEPT !.CommitSHA = out.sha] ELSE sres
           /\ spc' = "push"
           /\ UNCHANGED <<serr, tmp>>
  /\ UNCHANGED <<opts, world, remote, now, sdirs, ti, hi, pushes, run, first>>
  /\ UNCHANGED <<redactVars, discoverVars, cleanupVars, helmTestVars, callVars>>

\* 7. commit the changes
SyncCommit ==
  /\ spc = "commit"
  /\ \E fault \in CommitFaults(clone) :
       LET out == CommitAll(clone, fault)
       IN  /\ made' = out.created
           /\ commits' = IF out.created
                            THEN [commits EXCEPT !.local = Append(@, RunCommit(run))]
                            ELSE commits
           /\ steps' = Append(steps, Did("commit", Status(clone), ~out.err))
           /\ IF out.err
                THEN /\ Return("failed to commit changes", TRUE)
                     /\ UNCHANGED sres
                ELSE /\ clone' = [clone EXCEPT !.head = out.head]
                     /\ sres' = IF out.changed THEN [sres EXCEPT !.CommitSHA = out.sha]
                                ELSE sres
                     /\ spc' = "push"
                     /\ UNCHANGED <<serr, tmp>>
  /\ UNCHANGED <<opts, world, remote, now, sdirs, ti, hi, pushes, run, first>>
  /\ UNCHANGED <<redactVars, discoverVars, cleanupVars, helmTestVars, callVars>>

\* 8. push the branch
SyncPush ==
  /\ spc = "push"
  /\ \E ok \in BOOLEAN :
       IF ok
         THEN /\ remote' = (opts.Branch :> clone.head) @@ remote
              /\ commits' = [commits EXCEPT !.remote = (opts.Branch :> commits.local) @@ @,
                                            !.pushed = commits.local]
              /\ pushes' = Append(pushes, [branch |-> opts.Branch, by |-> "push"])
              /\ steps' = Append(steps, Did("push", <<>>, TRUE))
              /\ spc' = "compare"
              /\ UNCHANGED <<serr, tmp, clone>>
         ELSE /\ steps' = Append(steps, Did("push", <<>>, FALSE))
              /\ Return("failed to push", TRUE)
              /\ UNCHANGED <<remote, pushes, commits>>
  /\ UNCHANGED <<opts, world, now, sdirs, ti, hi, sres, made, run, first>>
  /\ UNCHANGED <<redactVars, discoverVars, cleanupVars, helmTestVars, callVars>>

\* 9. the compare URL
SyncCompare ==
  /\ spc = "compare"
  /\ sres' = [sres EXCEPT !.CompareURL =
                CompareURL(opts.ShadowRepo, opts.BaseBranch, opts.Branch)]
  /\ steps' = Append(steps, Did("compare", <<>>, TRUE))
  /\ spc' = "cleanup"
  /\ UNCHANGED <<opts, commits, world, remote, clone, tmp, now, sdirs, ti, hi, serr, made, pushes,
                 run, first>>
  /\ UNCHANGED <<redactVars, discoverVars, cleanupVars, helmTestVars, callVars>>

\* a request that does not look at the source repository
CleanupRequestedAlways == opts.CleanupMerged

CleanupRequested == opts.CleanupMerged /\ opts.SourceRepo # <<>>

\* 10. CleanupStaleBranches(shadowDir, SourceRepo, false, verbose): a failed
\* listing is logged, a result is attached to Result.Cleanup
SyncCleanup ==
  /\ spc = "cleanup"
  /\ CleanupRequested
  /\ \E listed \in PRBranchLists(DOMAIN remote), listOk \in BOOLEAN :
       IF ~listOk
         THEN /\ steps' = Append(steps, Did("cleanup", <<>>, FALSE))
              /\ UNCHANGED <<sres, remote>>
         ELSE \E resp \in [1..Len(listed) -> Responses],
                 deleteOk \in [1..Len(listed) -> BOOLEAN] :
                LET out == CleanupLoop([res |-> NewCleanupResult, gone |-> {}],
                                       listed, 1, resp, deleteOk, FALSE)
                IN  /\ Len(out.res.Errors) > 0 =>
                         run = 1 /\ NonFatal(sres) + Len(out.res.Errors) <= MaxFaults
                    /\ sres' = [sres EXCEPT !.Cleanup = <<out.res>>]
                    /\ remote' = [b \in DOMAIN remote \ out.gone |-> remote[b]]
                    /\ steps' = Append(steps, Did("cleanup", <<>>, TRUE))
  /\ spc' = "return"
  /\ UNCHANGED <<opts, commits, world, clone, tmp, now, sdirs, ti, hi, serr, made, pushes, run,
                 first>>
  /\ UNCHANGED <<redactVars, discoverVars, cleanupVars, helmTestVars, callVars>>

\* return result, nil
SyncReturn ==
  /\ \/ spc = "return"
     \/ spc = "cleanup" /\ ~CleanupRequested
  /\ Return("nil", TRUE)
  /\ UNCHANGED <<opts, commits, world, remote, now, sdirs, ti, hi, sres, steps, made, pushes, run,
                 first>>
  /\ UNCHANGED <<redactVars, discoverVars, cleanupVars, helmTestVars, callVars>>

\* a second Run with the same options, against the source repository as it
\* was and the shadow repository as the first run left it
RunAgain ==
  /\ spc = "returned"
  /\ serr = "nil"
  /\ run = 1
  /\ NonFatal(sres) = 0
  /\ first' = <<[result |-> sres, made |-> made, base |-> remote[opts.BaseBranch]]>>
  /\ run' = 2
  /\ spc' = "discover"
  /\ sdirs' = <<>>
  /\ ti' = 1
  /\ hi' = 1
  /\ sres' = NewResult(opts)
  /\ serr' = "none"
  /\ steps' = <<>>
  /\ made' = FALSE
  /\ pushes' = <<>>
  /\ commits' = [commits EXCEPT
                   !.local = <<>>, !.base = <<>>, !.pushed = <<>>, !.bootstrap = FALSE,
                   !.prior = IF HasBranch(remote, opts.Branch)
                               THEN commits.remote[opts.Branch] ELSE <<>>]
  /\ UNCHANGED <<opts, world, remote, clone, tmp, now>>
  /\ UNCHANGED <<redactVars, discoverVars, cleanupVars, helmTestVars, callVars>>

NextSync ==
  \/ SyncDiscover
  \/ MakeWorkspace
  \/ CloneShadow
  \/ SyncCheckout
  \/ ClearOutput
  \/ BuildTarget
  \/ HelmDiscover
  \/ RenderHelm
  \/ WriteMeta
  \/ SyncCommit
  \/ SyncPush
  \/ SyncCompare
  \/ SyncCleanup
  \/ SyncReturn
  \/ RunAgain

SpecSync == InitSync /\ [][NextSync]_vars

(***************************************************************************)
(* Claims about the sync run.                                              *)
(***************************************************************************)
StepsOf(name) == SelectSeq(steps, LAMBDA e : e.step = name)

TargetsOf(name) ==
  LET of == StepsOf(name) IN [i \in 1..Len(of) |-> of[i].target]

Ran(name) == \E i \in 1..Len(steps) : steps[i].step = name /\ steps[i].ok

FailuresIn(dirSet) == SelectSeq(sres.Failures, LAMBDA f : f.Directory \in dirSet)

KustomizeDirs == {sdirs[i] : i \in 1..Len(sdirs)}

HelmDirs == {HelmDir(world.apps[i]) : i \in 1..Len(world.apps)}

ReturnedNil == spc = "returned" /\ serr = "nil"

ReturnedError == spc = "returned" /\ serr # "nil"

\* C11: a failed kustomize build, Helm template, value-file resolution or
\* manifest write of a target is listed in Result.Failures and counted in
\* the matching failed counter; it never ends the loops or the run: every
\* discovered directory and every Helm source is worked on in turn, a run
\* only returns an error for a failed infrastructure step, and a run that
\* returns nil has written the metadata, committed and pushed.
C11_TargetFailuresRecordedRunGoesOn ==
  /\ Len(FailuresIn(KustomizeDirs)) = sres.FailedDirs
  /\ Len(FailuresIn(HelmDirs)) = sres.HelmAppsFailed
  /\ Len(sres.Failures) = sres.FailedDirs + sres.HelmAppsFailed
  /\ TargetsOf("kustomize") = SubSeq(sdirs, 1, ti - 1)
  /\ TargetsOf("helm") = [i \in 1..(hi - 1) |-> HelmDir(world.apps[i])]
  /\ (\E i \in 1..Len(steps) : steps[i].step = "meta") =>
        /\ ti = Len(sdirs) + 1
        /\ hi \in {1, Len(world.apps) + 1}
  /\ ReturnedError =>
        /\ steps[Len(steps)].step \notin {"kustomize", "helm"}
        /\ ~steps[Len(steps)].ok
  /\ ReturnedNil => Ran("meta") /\ Ran("commit") /\ Ran("push")

\* a run in which the first directory failed, the second was rendered and
\* the result was pushed
C11_Witness ==
  /\ ReturnedNil
  /\ Len(sdirs) = 2
  /\ sres.FailedDirs = 1
  /\ sres.RenderedDirs = 1
  /\ sres.Failures[1].Directory = sdirs[1]
  /\ Len(pushes) > 0

\* the infrastructure steps whose failure Run returns
FatalSteps == {"discover", "workspace", "clone", "checkout", "clear", "meta", "commit", "push"}

\* the place of every step in the order the claim states
StepOrder ==
  [discover |-> 1, workspace |-> 2, clone |-> 3, checkout |-> 4, clear |-> 5,
   kustomize |-> 6, helm |-> 7, meta |-> 8, commit |-> 9, push |-> 10, compare |-> 11,
   cleanup |-> 12]

Rank(name) == StepOrder[name]

\* the infrastructure steps that come before a step
FatalBefore(name) == {f \in FatalSteps : Rank(f) < Rank(name)}

PushedBy(who) == \E i \in 1..Len(pushes) : pushes[i].by = who

\* C12: the steps of a run are executed in the fixed order discover,
\* workspace and clone, checkout, clear, kustomize targets (in sorted
\* order), Helm sources, metadata, commit, push, compare URL, cleanup; a
\* step is executed only after every earlier infrastructure step succeeded;
\* a failed infrastructure step is the last step of the run, which returns
\* an error: no push follows a failed commit, no compare URL and no cleanup
\* follow a failed push.
C12_StepsInFixedOrder ==
  /\ \A i \in 1..(Len(steps) - 1) :
        \/ Rank(steps[i].step) < Rank(steps[i + 1].step)
        \/ /\ steps[i].step = steps[i + 1].step
           /\ steps[i].step \in {"kustomize", "helm"}
           /\ steps[i].step = "kustomize" => StrLess(steps[i].target, steps[i + 1].target)
  /\ \A i \in 1..Len(steps) :
        FatalBefore(steps[i].step) \subseteq
           {steps[j].step : j \in {k \in 1..(i - 1) : steps[k].ok}}
  /\ \A i \in 1..Len(steps) :
        (steps[i].step \in FatalSteps /\ ~steps[i].ok) => i = Len(steps) /\ ReturnedError
  /\ ReturnedError => steps[Len(steps)].step \in FatalSteps /\ ~steps[Len(steps)].ok
  /\ serr = "failed to commit changes" => ~PushedBy("push")
  /\ serr = "failed to push" =>
        /\ ~PushedBy("push")
        /\ sres.CompareURL = <<>>
        /\ sres.Cleanup = <<>>
        /\ ~\E i \in 1..Len(steps) : steps[i].step \in {"compare", "cleanup"}

\* a run that rendered two directories, committed and then failed to push
C12_Witness ==
  /\ spc = "returned"
  /\ serr = "failed to push"
  /\ Ran("commit")
  /\ Len(StepsOf("kustomize")) = 2

\* C13 as stated: a commit is created exactly when git status --porcelain
\* is not empty, and Result.CommitSHA is not empty exactly when a commit was
\* created.
C13_CommitExactlyWhenStatusNonEmpty ==
  \A i \in 1..Len(steps) :
     steps[i].step = "commit" =>
        /\ made <=> steps[i].target # <<>>
        /\ sres.CommitSHA # <<>> <=> made

\* C13, amended: a commit is only created when git status --porcelain is
\* not empty and Result.CommitSHA is only set when a commit was created;
\* when CommitAll returns no error, a commit was created exactly when the
\* status was not empty and CommitSHA is set exactly then; when git add,
\* status, commit or rev-parse fails, Run returns an error with CommitSHA
\* empty and pushes nothing (a failed rev-parse leaves a commit behind);
\* nothing to commit is no error: the run goes on to push, and when the
\* push succeeds it returns the compare URL.
C13_CommitIffChangedUnlessGitFails ==
  \A i \in 1..Len(steps) :
     steps[i].step = "commit" =>
        LET dirty == steps[i].target # <<>>
        IN  /\ made => dirty
            /\ sres.CommitSHA # <<>> => made
            /\ steps[i].ok => /\ made <=> dirty
                              /\ sres.CommitSHA # <<>> <=> made
            /\ ~steps[i].ok => /\ ReturnedError
                               /\ serr = "failed to commit changes"
                               /\ sres.CommitSHA = <<>>
                               /\ ~PushedBy("push")
            /\ (steps[i].ok /\ ~dirty) => serr \in {"none", "nil", "failed to push"}
            /\ (steps[i].ok /\ ~dirty /\ ReturnedNil) =>
                  /\ PushedBy("push")
                  /\ sres.CompareURL # <<>>

\* a run that found nothing to commit, pushed and returned the compare URL
C13_Witness ==
  /\ ReturnedNil
  /\ \E i \in 1..Len(steps) : steps[i].step = "commit" /\ steps[i].target = <<>>
  /\ ~made
  /\ sres.CommitSHA = <<>>
  /\ PushedBy("push")
  /\ sres.CompareURL # <<>>

\* C14: a second Run with the same options, against the unchanged source
\* repository and the base branch as the first run left it, creates no
\* commit: it returns CommitSHA = "" and a RenderedDirs above zero.
C14_RerunCreatesNoCommit ==
  (/\ run = 2
   /\ ReturnedNil
   /\ first[1].result.RenderedDirs > 0
   /\ first[1].base = remote[opts.BaseBranch]) =>
     /\ sres.CommitSHA = <<>>
     /\ sres.RenderedDirs > 0

\* C17: branch cleanup is only performed when CleanupMerged is set and
\* SourceRepo is not empty, and only after a successful push; it never
\* makes Run fail: after a failed listing Run returns nil and leaves
\* Result.Cleanup unset, otherwise the CleanupResult (with the errors of
\* single branches in it) is attached and Run returns nil.
C17_CleanupOnlyOnRequestNeverFailsSync ==
  /\ \A i \in 1..Len(steps) :
        steps[i].step = "cleanup" =>
           /\ opts.CleanupMerged
           /\ opts.SourceRepo # <<>>
           /\ \E j \in 1..(i - 1) : steps[j].step = "push" /\ steps[j].ok
           /\ serr \in {"none", "nil"}
           /\ ~steps[i].ok => sres.Cleanup = <<>>
           /\ steps[i].ok => Len(sres.Cleanup) = 1
  /\ sres.Cleanup # <<>> => Ran("cleanup")

\* a run that returned nil although the branches could not be listed
C17_Witness ==
  /\ ReturnedNil
  /\ \E i \in 1..Len(steps) : steps[i].step = "cleanup" /\ ~steps[i].ok
  /\ sres.Cleanup = <<>>

MaxBranches == 3

\* branch names a shadow remote may hold next to its base branch
BranchNames == {PR7, PR8, <<"p","r","-","x">>, <<"p","r","-","7","a">>, <<"p","r","-">>}

CleanupRemotes ==
  {{Main} \cup s : s \in {t \in SUBSET BranchNames : Cardinality(t) <= MaxBranches}}

InitCleanup ==
  /\ cdry \in BOOLEAN
  /\ cremote \in CleanupRemotes
  /\ clisted = <<>>
  /\ ci = 0
  /\ cres = NewCleanupResult
  /\ cerr = "none"
  /\ clooked = <<>>
  /\ cpc = "list"
  /\ RedactIdle
  /\ DiscoverIdle
  /\ SyncIdle
  /\ HelmTestIdle
  /\ CallsIdle

\* branches, err := listRemotePRBranches(shadowRepoPath)
CleanupList ==
  /\ cpc = "list"
  /\ \E ok \in BOOLEAN :
       IF ok
         THEN \E listed \in PRBranchLists(cremote) :
                /\ clisted' = listed
                /\ ci' = 1
                /\ cpc' = "loop"
                /\ UNCHANGED cerr
         ELSE /\ cerr' = "failed to list branches"
              /\ cpc' = "returned"
              /\ UNCHANGED <<clisted, ci>>
  /\ UNCHANGED <<cdry, cremote, cres, clooked>>
  /\ UNCHANGED <<redactVars, discoverVars, syncVars, helmTestVars, callVars>>

\* what the loop body learns about a branch: whether it asks the API, the
\* answer of the API and whether git push origin --delete would succeed
Looked(branch, resp, deleteOk, queried) ==
  [branch |-> branch, looked |-> getPRState(resp), deleteOk |-> deleteOk,
   queried |-> queried]

\* the answers that matter to a branch: none is asked for when the name does
\* not match prPattern
ResponsesFor(branch) ==
  IF prNumberOf(branch) = <<>> THEN {Response("none", 404, "", "")} ELSE Responses

\* an iteration that gives up at the first error
CleanupStepStopsAtError ==
  /\ cpc = "loop"
  /\ ci <= Len(clisted)
  /\ \E resp \in ResponsesFor(clisted[ci]), deleteOk \in BOOLEAN :
       LET out == CleanupBranch(cres, clisted[ci], resp, deleteOk, cdry)
       IN  /\ cres' = out.res
           /\ cremote' = IF out.deleted THEN cremote \ {clisted[ci]} ELSE cremote
           /\ clooked' = Append(clooked, Looked(clisted[ci], resp, deleteOk, out.queried))
           /\ IF Len(out.res.Errors) > Len(cres.Errors)
                THEN cpc' = "returned" /\ cerr' = "nil" /\ UNCHANGED ci
                ELSE ci' = ci + 1 /\ UNCHANGED <<cpc, cerr>>
  /\ UNCHANGED <<cdry, clisted>>
  /\ UNCHANGED <<redactVars, discoverVars, syncVars, helmTestVars, callVars>>

\* one iteration of for _, branch := range branches
CleanupStep ==
  /\ cpc = "loop"
  /\ ci <= Len(clisted)
  /\ \E resp \in ResponsesFor(clisted[ci]), deleteOk \in BOOLEAN :
       LET out == CleanupBranch(cres, clisted[ci], resp, deleteOk, cdry)
       IN  /\ cres' = out.res
           /\ cremote' = IF out.deleted THEN cremote \ {clisted[ci]} ELSE cremote
           /\ clooked' = Append(clooked, Looked(clisted[ci], resp, deleteOk, out.queried))
  /\ ci' = ci + 1
  /\ UNCHANGED <<cdry, clisted, cerr, cpc>>
  /\ UNCHANGED <<redactVars, discoverVars, syncVars, helmTestVars, callVars>>

\* return result, nil
CleanupReturn ==
  /\ cpc = "loop"
  /\ ci > Len(clisted)
  /\ cerr' = "nil"
  /\ cpc' = "returned"
  /\ UNCHANGED <<cdry, clisted, cremote, ci, cres, clooked>>
  /\ UNCHANGED <<redactVars, discoverVars, syncVars, helmTestVars, callVars>>

NextCleanup ==
  \/ CleanupList
  \/ CleanupStep
  \/ CleanupReturn

SpecCleanup == InitCleanup /\ [][NextCleanup]_vars

Elems(list) == {list[i] : i \in 1..Len(list)}

\* a branch named pr-<digits> whose pull request was looked up without error
LookedUp(e) == prNumberOf(e.branch) # <<>> /\ e.looked.err = "nil"

\* a branch whose lookup failed or whose deletion was tried and failed
FailedBranch(e) ==
  /\ prNumberOf(e.branch) # <<>>
  /\ \/ e.looked.err # "nil"
     \/ e.looked.state # "open" /\ ~cdry /\ ~e.deleteOk

\* C15: the branch of a pull request whose looked-up state is open is never
\* deleted and is recorded in SkippedBranches; with dryRun false every
\* pr-<digits> branch whose pull request is reported closed, merged or not
\* found is deleted from the remote and recorded in DeletedBranches when
\* the delete succeeds.
C15_OpenKeptClosedDeleted ==
  \A i \in 1..Len(clooked) :
     LET e == clooked[i]
     IN  /\ (LookedUp(e) /\ e.looked.state = "open") =>
               /\ e.branch \in cremote
               /\ e.branch \in Elems(cres.SkippedBranches)
               /\ e.branch \notin Elems(cres.DeletedBranches)
         /\ (/\ LookedUp(e)
             /\ e.looked.state \in {"closed", "merged", "not_found"}
             /\ ~cdry
             /\ e.deleteOk) =>
               /\ e.branch \notin cremote
               /\ e.branch \in Elems(cres.DeletedBranches)
               /\ e.branch \notin Elems(cres.SkippedBranches)

\* a finished cleanup that kept the branch of an open pull request and
\* deleted the branch of a merged one
C15_Witness ==
  /\ cpc = "returned"
  /\ ~cdry
  /\ \E i, j \in 1..Len(clooked) :
        /\ LookedUp(clooked[i]) /\ clooked[i].looked.state = "open"
        /\ clooked[i].branch \in cremote
        /\ LookedUp(clooked[j]) /\ clooked[j].looked.state = "merged"
        /\ clooked[j].branch \notin cremote

\* C16: a failed lookup or a failed delete of one branch adds one entry to
\* Errors and the loop goes on: the branches processed so far are the
\* beginning of the list and of CheckedBranches, a cleanup that returned
\* without error has every listed branch in CheckedBranches, and a branch
\* whose lookup or deletion failed is in neither DeletedBranches nor
\* SkippedBranches and still on the remote.
C16_ErrorsRecordedLoopGoesOn ==
  LET failed == {i \in 1..Len(clooked) : FailedBranch(clooked[i])}
  IN  /\ Len(clooked) <= Len(clisted)
      /\ cres.CheckedBranches = SubSeq(clisted, 1, Len(clooked))
      /\ \A i \in 1..Len(clooked) : clooked[i].branch = clisted[i]
      /\ (cpc = "returned" /\ cerr = "nil") => cres.CheckedBranches = clisted
      /\ Len(cres.Errors) = Cardinality(failed)
      /\ \A i \in failed :
            /\ clooked[i].branch \notin Elems(cres.DeletedBranches)
            /\ clooked[i].branch \notin Elems(cres.SkippedBranches)
            /\ clooked[i].branch \in cremote
            /\ \E k \in 1..Len(cres.Errors) :
                  cres.Errors[k].what \in {clooked[i].branch, prNumberOf(clooked[i].branch)}

\* a finished cleanup in which a lookup and a delete failed and a later
\* branch was still processed
C16_Witness ==
  /\ cpc = "returned"
  /\ cerr = "nil"
  /\ Len(cres.Errors) = 2
  /\ \E i \in 1..Len(clooked) : clooked[i].looked.err # "nil" /\ i < Len(clooked)
  /\ \E i \in 1..Len(clooked) :
        /\ LookedUp(clooked[i])
        /\ ~clooked[i].deleteOk
        /\ FailedBranch(clooked[i])
        /\ i < Len(clooked)
  /\ cres.CheckedBranches = clisted

(***************************************************************************)
(* shadow helm test: testHelmSource renders one Helm source, trying again  *)
(* after transient failures.  hlog is the history of the sleeps and of the *)
(* calls of helm.Template; htmp the temporary files that exist.            *)
(***************************************************************************)
MaxRetries == 3

\* --retry-delay, in seconds
helmRetryDelay == 2

\* --repo-dir
repoDir == <<"/","s","r","c">>

UpperCase == <<"A","B","C","D","E","F","G","H","I","J","K","L","M","N","O","P","Q","R","S","T","U","V","W","X","Y","Z">>

LowerCase == <<"a","b","c","d","e","f","g","h","i","j","k","l","m","n","o","p","q","r","s","t","u","v","w","x","y","z">>

ToLowerChar(c) ==
  IF \E k \in 1..Len(UpperCase) : UpperCase[k] = c
    THEN LowerCase[CHOOSE k \in 1..Len(UpperCase) : UpperCase[k] = c]
    ELSE c

\* strings.ToLower on the characters of the messages
ToLower(s) == [i \in 1..Len(s) |-> ToLowerChar(s[i])]

retryablePatterns ==
  << <<"t","i","m","e","o","u","t">>, <<"c","o","n","n","e","c","t","i","o","n"," ","r","e","f","u","s","e","d">>, <<"c","o","n","n","e","c","t","i","o","n"," ","r","e","s","e","t">>, <<"n","o"," ","s","u","c","h"," ","h","o","s","t">>,
     <<"t","e","m","p","o","r","a","r","y"," ","f","a","i","l","u","r","e">>, <<"n","e","t","w","o","r","k"," ","i","s"," ","u","n","r","e","a","c","h","a","b","l","e">>, <<"i","/","o"," ","t","i","m","e","o","u","t">>,
     <<"t","l","s"," ","h","a","n","d","s","h","a","k","e"," ","t","i","m","e","o","u","t">>, <<"e","o","f">> >>

\* isRetryableError; the nil error is <<>>
isRetryableError(err) ==
  /\ err # <<>>
  /\ \E i \in 1..Len(retryablePatterns) : Contains(ToLower(err), retryablePatterns[i])

\* the zero TemplateResult
NoTemplateResult == [Output |-> <<>>, Passed |-> FALSE, Error |-> <<>>, Command |-> <<>>]

NewHelmTestResult(name) ==
  [Name |-> name, Passed |-> FALSE, Retries |-> 0, Error |-> <<>>, Command |-> <<>>,
   Bytes |-> 0]

ResolveFailed == <<"f","a","i","l","e","d"," ","t","o"," ","r","e","s","o","l","v","e"," ","v","a","l","u","e"," ","f","i","l","e","s",":"," ">>

\* what helm prints when it fails
HelmOutputs == {<<"E","r","r","o","r",":"," ","n","o","t"," ","f","o","u","n","d">>, <<"E","r","r","o","r",":"," ","u","n","e","x","p","e","c","t","e","d"," ","E","O","F">>, <<"d","i","a","l"," ","t","c","p",":"," ","i","/","o"," ","t","i","m","e","o","u","t">>}

\* the environments of one Template call of testHelmSource
HelmTestEnvs(src) ==
  {[fault |-> "none", cause |-> <<>>, output |-> ChartOutput(src)]}
  \cup {[fault |-> "helm", cause |-> ExitStatus, output |-> out] : out \in HelmOutputs}
  \cup (IF src.Values # <<>>
          THEN {[fault |-> "create", cause |-> <<"t","o","o"," ","m","a","n","y"," ","o","p","e","n"," ","f","i","l","e","s">>, output |-> <<>>],
                [fault |-> "write", cause |-> <<"n","o"," ","s","p","a","c","e"," ","l","e","f","t"," ","o","n"," ","d","e","v","i","c","e">>, output |-> <<>>]}
          ELSE {})

InitHelmTest ==
  /\ helmRetries \in (-1)..MaxRetries
  /\ hsource \in {SourceA1, SourceA2}
  /\ hvalueFiles = <<>>
  /\ attempt = 0
  /\ helmResult = NoTemplateResult
  /\ hres = NewHelmTestResult(hsource.Name)
  /\ hlog = <<>>
  /\ htmp = {}
  /\ hpc = "resolve"
  /\ RedactIdle
  /\ DiscoverIdle
  /\ SyncIdle
  /\ CleanupIdle
  /\ CallsIdle

\* the value files are resolved before the loop; a missing file ends the test
HelmResolve ==
  /\ hpc = "resolve"
  /\ IF Len(hsource.ValueFiles) > 0
       THEN \E missing \in MissingValueFiles :
              LET resolved == ResolveValueFiles(hsource.ValueFiles, repoDir, missing)
              IN  IF ~resolved.ok
                    THEN /\ hres' = [hres EXCEPT !.Error = ResolveFailed \o resolved.err]
                         /\ hpc' = "unresolved"
                         /\ UNCHANGED hvalueFiles
                    ELSE /\ hvalueFiles' = resolved.files
                         /\ hpc' = "loop"
                         /\ UNCHANGED hres
       ELSE /\ hpc' = "loop"
            /\ UNCHANGED <<hvalueFiles, hres>>
  /\ UNCHANGED <<helmRetries, hsource, attempt, helmResult, hlog, htmp>>
  /\ UNCHANGED <<redactVars, discoverVars, syncVars, cleanupVars, callVars>>

Event(kind, n, passed, retryable) ==
  [kind |-> kind, attempt |-> n, passed |-> passed, retryable |-> retryable,
   delay |-> IF kind = "sleep" THEN helmRetryDelay ELSE 0]

\* a loop that never stores the retry
recordRetryNever(res, n) == res

\* if attempt > 0 { ...; result.Retries = attempt }
recordRetry(res, n) == IF n > 0 THEN [res EXCEPT !.Retries = n] ELSE res

\* one iteration of the retry loop
HelmAttempt ==
  /\ hpc = "loop"
  /\ attempt <= helmRetries
  /\ \E env \in HelmTestEnvs(hsource) :
       LET out       == Template(HelmOptions(hsource, hvalueFiles), env, htmp)
           retryable == isRetryableError(out.res.Error)
           slept     == IF attempt > 0
                          THEN <<Event("sleep", attempt, FALSE, FALSE)>> ELSE <<>>
       IN  /\ hlog' = hlog \o slept
                      \o <<Event("template", attempt, out.res.Passed, retryable)>>
           /\ hres' = [recordRetry(hres, attempt) EXCEPT !.Command = out.res.Command]
           /\ helmResult' = out.res
           /\ htmp' = out.files
           /\ IF out.res.Passed \/ ~retryable
                THEN hpc' = "finish" /\ UNCHANGED attempt
                ELSE attempt' = attempt + 1 /\ UNCHANGED hpc
  /\ UNCHANGED <<helmRetries, hsource, hvalueFiles>>
  /\ UNCHANGED <<redactVars, discoverVars, syncVars, cleanupVars, callVars>>

\* the loop condition attempt <= helmRetries is false
HelmLoopEnd ==
  /\ hpc = "loop"
  /\ attempt > helmRetries
  /\ hpc' = "finish"
  /\ UNCHANGED <<helmRetries, hsource, hvalueFiles, attempt, helmResult, hres, hlog, htmp>>
  /\ UNCHANGED <<redactVars, discoverVars, syncVars, cleanupVars, callVars>>

\* after the loop: Passed, Bytes or Error of the last TemplateResult
HelmFinish ==
  /\ hpc = "finish"
  /\ hres' = [hres EXCEPT !.Passed = helmResult.Passed,
                          !.Bytes = IF helmResult.Passed THEN Len(helmResult.Output) ELSE @,
                          !.Error = IF ~helmResult.Passed /\ helmResult.Error # <<>>
                                      THEN helmResult.Error ELSE @]
  /\ hpc' = "done"
  /\ UNCHANGED <<helmRetries, hsource, hvalueFiles, attempt, helmResult, hlog, htmp>>
  /\ UNCHANGED <<redactVars, discoverVars, syncVars, cleanupVars, callVars>>

NextHelmTest ==
  \/ HelmResolve
  \/ HelmAttempt
  \/ HelmLoopEnd
  \/ HelmFinish

SpecHelmTest == InitHelmTest /\ [][NextHelmTest]_vars

IsCall(e) == e.kind = "template"

IsSleep(e) == e.kind = "sleep"

\* the calls of helm.Template made so far
Invocations == Len(SelectSeq(hlog, IsCall))

Sleeps == Len(SelectSeq(hlog, IsSleep))

LoopLeft == hpc \in {"finish", "done"}

Max(a, b) == IF a >= b THEN a ELSE b

\* the order of sleeps and calls, and the rules for going on and stopping
RetryDiscipline ==
  /\ Invocations <= Max(1, helmRetries + 1)
  /\ hlog # <<>> => IsCall(hlog[1]) /\ IsCall(hlog[Len(hlog)])
  /\ \A i \in 2..Len(hlog) :
        /\ IsCall(hlog[i]) => IsSleep(hlog[i - 1]) /\ hlog[i - 1].delay = helmRetryDelay
        /\ IsSleep(hlog[i]) => IsCall(hlog[i - 1])
  /\ \A i \in 1..(Len(hlog) - 1) :
        IsCall(hlog[i]) => ~hlog[i].passed /\ hlog[i].retryable
  /\ (LoopLeft /\ hlog # <<>>) =>
        LET last == hlog[Len(hlog)]
        IN  \/ last.passed
            \/ ~last.retryable
            \/ Invocations = helmRetries + 1

\* C18: the retry loop with retry count N makes at least one and at most
\* max(1, N+1) calls of helm.Template, sleeps the configured delay before
\* every call after the first and never after the last, stops at the first
\* success and at the first failure that is not retryable, and calls again
\* only after a retryable failure.
C18_AtLeastOneAttemptStopsEarly ==
  /\ LoopLeft => Invocations >= 1
  /\ RetryDiscipline

\* the same for the retry counts that are not negative
C18_HoldsForNonNegativeRetries ==
  helmRetries >= 0 => (LoopLeft => Invocations >= 1) /\ RetryDiscipline

\* C19 as stated: the count stored in the test result is the number of
\* calls of helm.Template made for the source.
C19_RetriesEqualsInvocations ==
  hpc = "done" => hres.Retries = Invocations

\* C19, amended: the count stored in the test result, Retries, is the
\* number of retries, that is of the sleeps made: one less than the number
\* of calls of helm.Template when there was a call, and zero when there was
\* none.
C19_RetriesIsSleepsMade ==
  /\ hres.Retries = Sleeps
  /\ hpc \in {"done", "unresolved"} =>
        /\ Invocations >= 1 => hres.Retries = Invocations - 1
        /\ Invocations = 0 => hres.Retries = 0
        /\ hres.Passed => Invocations >= 1 /\ hlog[Len(hlog)].passed

\* a test that passed at its second call
C19_Witness ==
  /\ hpc = "done"
  /\ hres.Passed
  /\ Invocations = 2
  /\ hres.Retries = 1

\* the number of targets of a kind that met an outcome
Outcomes(kind, outcome) ==
  Cardinality({i \in 1..Len(steps) : steps[i].step = kind /\ steps[i].outcome = outcome})

FailedDirectories == {sres.Failures[i].Directory : i \in 1..Len(sres.Failures)}

\* the counters of the result and the outcomes of the targets worked on
CountersMatchOutcomes ==
  /\ sres.RenderedDirs = Outcomes("kustomize", "rendered")
  /\ sres.SkippedDirs = Outcomes("kustomize", "skipped")
  /\ sres.FailedDirs = Outcomes("kustomize", "failed")
  /\ sres.HelmAppsRendered = Outcomes("helm", "rendered")
  /\ sres.HelmAppsFailed = Outcomes("helm", "failed")
  /\ Outcomes("helm", "skipped") = 0
  /\ Len(sres.Failures) = sres.FailedDirs + sres.HelmAppsFailed
  /\ \A i \in 1..Len(steps) :
        /\ steps[i].step = "kustomize" =>
              (steps[i].outcome = "failed" <=> steps[i].target \in FailedDirectories)
        /\ (steps[i].step = "helm" /\ steps[i].outcome = "failed") =>
              steps[i].target \in FailedDirectories

\* C21 as stated: when Run returns nil every discovered directory is counted
\* in exactly one of RenderedDirs, SkippedDirs and FailedDirs, a skipped
\* directory is neither counted as failed nor listed in Failures, every
\* Helm source of the repository is counted in exactly one of
\* HelmAppsRendered and HelmAppsFailed, and len(Failures) is FailedDirs +
\* HelmAppsFailed.
C21_EveryTargetCountedOnce ==
  ReturnedNil =>
     /\ CountersMatchOutcomes
     /\ sres.RenderedDirs + sres.SkippedDirs + sres.FailedDirs = Len(sdirs)
     /\ sres.HelmAppsRendered + sres.HelmAppsFailed = Len(world.apps)

\* C21, amended: the counters are the numbers of targets that met each
\* outcome at every moment of the run, so a skipped directory is neither
\* counted as failed nor listed in Failures and len(Failures) is
\* FailedDirs + HelmAppsFailed; when Run returns nil the three directory
\* counters add up to the number of discovered directories; the two Helm
\* counters add up to the number of Helm sources when helm was found and
\* the Applications were discovered, and both are zero otherwise (always
\* when helm is not installed).
C21_TargetsCountedOnceWhenProcessed ==
  /\ CountersMatchOutcomes
  /\ sres.RenderedDirs + sres.SkippedDirs + sres.FailedDirs = ti - 1
  /\ sres.HelmAppsRendered + sres.HelmAppsFailed = hi - 1
  /\ ReturnedNil =>
        /\ sres.RenderedDirs + sres.SkippedDirs + sres.FailedDirs = Len(sdirs)
        /\ sres.HelmAppsRendered + sres.HelmAppsFailed \in {0, Len(world.apps)}
        /\ ~world.helmInstalled => sres.HelmAppsRendered + sres.HelmAppsFailed = 0

\* a run without helm that returned nil after a skipped and a rendered
\* directory, with the Helm sources of the repository left uncounted
C21_Witness ==
  /\ ReturnedNil
  /\ ~world.helmInstalled
  /\ Len(world.apps) > 0
  /\ sres.SkippedDirs = 1
  /\ sres.RenderedDirs = 1
  /\ sres.HelmAppsRendered + sres.HelmAppsFailed = 0

(***************************************************************************)
(* The helpers of the pipeline called on their own: fn is the function     *)
(* called, arg its argument and ret what it returned.                      *)
(***************************************************************************)
MaxValueFiles == 2

\* the registries of ociRegistryPrefixes, as host names
OCIHosts ==
  {<<"d","o","c","k","e","r",".","i","o">>, <<"g","h","c","r",".","i","o">>, <<"q","u","a","y",".","i","o">>, <<"r","e","g","i","s","t","r","y",".","k","8","s",".","i","o">>, <<"g","c","r",".","i","o">>,
   <<"p","u","b","l","i","c",".","e","c","r",".","a","w","s">>, <<"m","c","r",".","m","i","c","r","o","s","o","f","t",".","c","o","m">>}

\* repository URLs: a registry or a chart server, with and without scheme,
\* port and path
RepoURLs ==
  {scheme \o host \o port \o path :
     scheme \in {<<>>, OciScheme, HttpsScheme},
     host \in OCIHosts \cup {<<"c","h","a","r","t","s",".","e","x","a","m","p","l","e",".","c","o","m">>, <<"d","o","c","k","e","r",".","i","o",".","e","x","a","m","p","l","e",".","c","o","m">>},
     port \in {<<>>, <<":","4","4","3">>},
     path \in {<<>>, <<"/","x">>}}

\* value file lists of at most MaxValueFiles entries
ValueFileEntries == {<<"$","v","a","l","u","e","s","/","a">>, <<"$","v","a","l","u","e","s","/",".","/","b">>, <<"c">>, <<"$","v","a","l","u","e","s","d">>}

ValueFileLists ==
  UNION {[1..n -> ValueFileEntries] : n \in 0..MaxValueFiles}

MissingFiles == SUBSET {<<"/","s","r","c","/","a">>, <<"/","s","r","c","/","b">>}

\* repository references with the slug they stand for ("" for those that
\* stand for none)
RepoOwners == {<<"o","w","n","e","r">>, <<"m","y","-","o","r","g","-","1","2","3">>}

RepoNames == {<<"r","e","p","o">>, <<"r","2">>}

RepoRef(input, kind, want) == [input |-> input, kind |-> kind, want |-> want]

RepoRefs ==
  UNION {
    LET slug == pair[1] \o Slash \o pair[2]
    IN  {RepoRef(<<"h","t","t","p","s",":","/","/","g","i","t","h","u","b",".","c","o","m","/">> \o slug \o git \o slash, "https", slug) :
           git \in {<<>>, DotGit}, slash \in {<<>>, Slash}}
        \cup {RepoRef(<<"g","i","t","@","g","i","t","h","u","b",".","c","o","m",":">> \o slug \o git, "ssh", slug) :
                git \in {<<>>, DotGit}}
        \cup {RepoRef(slug, "slug", slug)}
    : pair \in RepoOwners \X RepoNames}
  \cup {RepoRef(<<"j","u","s","t","r","e","p","o">>, "bad", <<>>), RepoRef(<<>>, "bad", <<>>),
        RepoRef(<<"g","i","t","@","g","i","t","h","u","b",".","c","o","m",":","r","e","p","o">>, "bad", <<>>)}

\* TemplateOptions with and without a release name
TemplateOptionsSet ==
  [ReleaseName : {<<>>, <<"r","e","l">>}, Namespace : {<<>>, <<"n","s">>},
   RepoURL : {<<>>, <<"h","t","t","p","s",":","/","/","c","h","a","r","t","s",".","e","x","a","m","p","l","e">>}, Chart : {<<"w","e","b">>, <<"o","c","i",":","/","/","g","h","c","r",".","i","o","/","o","/","g","w">>},
   Version : {<<>>, <<"1",".","0">>}, ValueFiles : {<<>>}, InlineValues : {<<>>, <<"k",":"," ","v">>}]

\* an Application without helm.releaseName whose chart is in a registry
SourceB == HelmSource(<<"b">>, <<"g","w">>, <<"g","h","c","r",".","i","o","/","o">>, <<>>, <<>>, <<>>)

\* an Application whose Helm source refers to another value file
SourceC == HelmSource(<<"c">>, <<"w","e","b">>, <<"h","t","t","p","s",":","/","/","c","h","a","r","t","s",".","e","x","a","m","p","l","e">>, << <<"$","v","a","l","u","e","s","/",".","/","a">> >>, <<>>, <<>>)

\* the Helm sources Run iterates over: one or two of three
HelmLoopApps ==
  UNION {[1..n -> {SourceA1, SourceA2, SourceC}] : n \in 1..2}

MissingOfLoop == SUBSET {<<"/","s","r","c","/","v",".","y","a","m","l">>, <<"/","s","r","c","/","a">>}

InitCalls ==
  /\ \/ fn = "IsOCIRegistry" /\ arg \in RepoURLs
     \/ fn = "ResolveValueFiles"
          /\ arg \in [valueFiles : ValueFileLists, missing : MissingFiles]
     \/ fn = "renderHelmSource"
          /\ arg \in [src : {SourceA1, SourceA2, SourceB}, missing : MissingValueFiles]
     \/ fn = "helmLoop" /\ arg \in [apps : HelmLoopApps, missing : MissingOfLoop]
     \/ fn = "Template" /\ arg \in TemplateOptionsSet
     \/ fn = "ParseRepoSlug" /\ arg \in RepoRefs
  /\ ret = <<>>
  /\ fpc = "call"
  /\ RedactIdle
  /\ DiscoverIdle
  /\ SyncIdle
  /\ CleanupIdle
  /\ HelmTestIdle

\* IsOCIRegistry(url), NormalizeOCIURL(url) and NormalizeOCIURL of that
CallIsOCIRegistry ==
  /\ fpc = "call"
  /\ fn = "IsOCIRegistry"
  /\ ret' = [oci |-> IsOCIRegistry(arg), normal |-> NormalizeOCIURL(arg),
             twice |-> NormalizeOCIURL(NormalizeOCIURL(arg))]
  /\ fpc' = "returned"
  /\ UNCHANGED <<fn, arg>>
  /\ UNCHANGED <<redactVars, discoverVars, syncVars, cleanupVars, helmTestVars>>

\* ResolveValueFiles(valueFiles, repoPath)
CallResolveValueFiles ==
  /\ fpc = "call"
  /\ fn = "ResolveValueFiles"
  /\ ret' = ResolveValueFiles(arg.valueFiles, repoDir, arg.missing)
  /\ fpc' = "returned"
  /\ UNCHANGED <<fn, arg>>
  /\ UNCHANGED <<redactVars, discoverVars, syncVars, cleanupVars, helmTestVars>>

\* renderHelmSource(app, source) with a helm binary that renders the chart
CallRenderHelmSource ==
  /\ fpc = "call"
  /\ fn = "renderHelmSource"
  /\ ret' = renderHelmSource(arg.src, repoDir, arg.missing,
                             [fault |-> "none", cause |-> <<>>,
                              output |-> ChartOutput(arg.src)], {})
  /\ fpc' = "returned"
  /\ UNCHANGED <<fn, arg>>
  /\ UNCHANGED <<redactVars, discoverVars, syncVars, cleanupVars, helmTestVars>>

\* the Helm loop of Run from source i on, with a helm binary that renders
\* every chart and manifests that can be written: the Result and the
\* TemplateResult of each source
RECURSIVE HelmLoop(_, _, _, _)
HelmLoop(acc, apps, i, missing) ==
  IF i > Len(apps) THEN acc
  ELSE LET src == apps[i]
           out == renderHelmSource(src, repoDir, missing,
                                   [fault |-> "none", cause |-> <<>>,
                                    output |-> ChartOutput(src)], {})
       IN  HelmLoop([result |-> HelmRecorded(acc.result, src, out.res, "none"),
                     rendered |-> Append(acc.rendered, out.res)],
                    apps, i + 1, missing)

CallHelmLoop ==
  /\ fpc = "call"
  /\ fn = "helmLoop"
  /\ \E raw \in RawOptions :
       ret' = HelmLoop([result |-> NewResult(New(raw, 1)), rendered |-> <<>>],
                       arg.apps, 1, arg.missing)
  /\ fpc' = "returned"
  /\ UNCHANGED <<fn, arg>>
  /\ UNCHANGED <<redactVars, discoverVars, syncVars, cleanupVars, helmTestVars>>

\* helm.Template(opts) with a helm binary that renders the chart
CallTemplate ==
  /\ fpc = "call"
  /\ fn = "Template"
  /\ ret' = Template(arg, [fault |-> "none", cause |-> <<>>, output |-> PlainManifest], {})
  /\ fpc' = "returned"
  /\ UNCHANGED <<fn, arg>>
  /\ UNCHANGED <<redactVars, discoverVars, syncVars, cleanupVars, helmTestVars>>

\* GitURLFromSlug
GitURLFromSlug(slug) ==
  IF HasPrefix(slug, HttpsScheme) \/ HasPrefix(slug, GitAt) THEN slug
  ELSE <<"h","t","t","p","s",":","/","/","g","i","t","h","u","b",".","c","o","m","/">> \o slug \o DotGit

\* ParseRepoSlug(input), GitURLFromSlug of the slug and of the input
CallParseRepoSlug ==
  /\ fpc = "call"
  /\ fn = "ParseRepoSlug"
  /\ LET parsed == ParseRepoSlug(arg.input)
     IN  ret' = [slug |-> parsed.slug, ok |-> parsed.ok,
                 url |-> IF parsed.ok THEN GitURLFromSlug(parsed.slug) ELSE <<>>,
                 direct |-> GitURLFromSlug(arg.input)]
  /\ fpc' = "returned"
  /\ UNCHANGED <<fn, arg>>
  /\ UNCHANGED <<redactVars, discoverVars, syncVars, cleanupVars, helmTestVars>>

NextCalls ==
  \/ CallIsOCIRegistry
  \/ CallResolveValueFiles
  \/ CallRenderHelmSource
  \/ CallHelmLoop
  \/ CallTemplate
  \/ CallParseRepoSlug

SpecCalls == InitCalls /\ [][NextCalls]_vars

\* the host of a URL: what follows the scheme, up to the first slash, without
\* the port
Host(url) ==
  LET mark      == Index(url, SchemeMark)
      rest      == IF mark = 0 THEN url
                   ELSE SubSeq(url, mark + Len(SchemeMark), Len(url))
      slash     == Index(rest, Slash)
      authority == IF slash = 0 THEN rest ELSE SubSeq(rest, 1, slash - 1)
      colon     == Index(authority, <<":">>)
  IN  IF colon = 0 THEN authority ELSE SubSeq(authority, 1, colon - 1)

OCICallReturned == fn = "IsOCIRegistry" /\ fpc = "returned"

\* NormalizeOCIURL puts oci:// in front of a URL that lacks it, leaves the
\* rest alone and changes nothing when applied again
NormalizesOnce ==
  /\ ret.normal = IF HasPrefix(arg, OciScheme) THEN arg ELSE OciScheme \o arg
  /\ HasPrefix(ret.normal, OciScheme)
  /\ HasSuffix(ret.normal, arg)
  /\ ret.twice = ret.normal

\* C22 as stated: IsOCIRegistry(url) is true exactly when url has the oci://
\* scheme or its host is one of the seven registries, and NormalizeOCIURL
\* prefixes oci:// only when absent, so it is idempotent.
C22_OCIIffSchemeOrListedHost ==
  OCICallReturned =>
    /\ ret.oci <=> (HasPrefix(arg, OciScheme) \/ Host(arg) \in OCIHosts)
    /\ NormalizesOnce

\* C22 amended: IsOCIRegistry(url) is true exactly when url begins with
\* oci:// or is a scheme-less reference made of one of the seven registry
\* host names, a slash and a path (so a registry behind another scheme, with
\* a port or without a path is not OCI); NormalizeOCIURL prefixes oci:// only
\* when absent, alters nothing else and is idempotent.
C22_OCIIffSchemeOrRegistryPath ==
  OCICallReturned =>
    /\ ret.oci <=>
         \/ HasPrefix(arg, OciScheme)
         \/ /\ Index(arg, Slash) > 1
            /\ SubSeq(arg, 1, Index(arg, Slash) - 1) \in OCIHosts
    /\ NormalizesOnce

\* a scheme-less registry reference is OCI and gets the scheme
C22_Witness ==
  /\ OCICallReturned
  /\ arg = <<"d","o","c","k","e","r",".","i","o","/","x">>
  /\ ret.oci
  /\ ret.normal = <<"o","c","i",":","/","/","d","o","c","k","e","r",".","i","o","/","x">>
  /\ ret.twice = ret.normal

IsValuesRef(vf) == HasPrefix(vf, ValuesPrefix)

\* what a value file entry stands for: the file under the repository root
\* for a $values/ reference, the entry itself otherwise
Wanted(vf, repoRoot) ==
  IF IsValuesRef(vf)
    THEN filepathJoin(repoRoot, SubSeq(vf, Len(ValuesPrefix) + 1, Len(vf)))
    ELSE vf

\* the entries that refer to a file the repository does not have
Unresolvable(valueFiles, repoRoot, missing) ==
  {i \in 1..Len(valueFiles) :
     IsValuesRef(valueFiles[i]) /\ Wanted(valueFiles[i], repoRoot) \in missing}

Least(S) == CHOOSE i \in S : \A j \in S : i <= j

ResolvedInOrder ==
  (fn = "ResolveValueFiles" /\ fpc = "returned") =>
    LET bad == Unresolvable(arg.valueFiles, repoDir, arg.missing)
    IN  IF bad = {}
          THEN /\ ret.ok
               /\ Len(ret.files) = Len(arg.valueFiles)
               /\ \A i \in 1..Len(arg.valueFiles) :
                    ret.files[i] = Wanted(arg.valueFiles[i], repoDir)
          ELSE /\ ~ret.ok
               /\ ret.files = <<>>
               /\ LET vf == arg.valueFiles[Least(bad)]
                  IN  ret.err = <<"v","a","l","u","e"," ","f","i","l","e"," ","n","o","t"," ","f","o","u","n","d",":"," ">> \o Wanted(vf, repoDir)
                                  \o <<" ","(","r","e","s","o","l","v","e","d"," ","f","r","o","m"," ">> \o vf \o <<")">>

SourceFails(src, missing) == Unresolvable(src.ValueFiles, repoDir, missing) # {}

\* in the Helm loop an unresolvable value file fails its own source and no
\* other: one Failure and one HelmAppsFailed per such source, in order
FailureOfThatSourceOnly ==
  (fn = "helmLoop" /\ fpc = "returned") =>
    LET failing == {i \in 1..Len(arg.apps) : SourceFails(arg.apps[i], arg.missing)}
        nth(k)  == Least({i \in failing : Cardinality({j \in failing : j <= i}) = k})
    IN  /\ \A i \in 1..Len(arg.apps) : ret.rendered[i].Passed <=> i \notin failing
        /\ ret.result.HelmAppsFailed = Cardinality(failing)
        /\ ret.result.HelmAppsRendered = Len(arg.apps) - Cardinality(failing)
        /\ Len(ret.result.Failures) = Cardinality(failing)
        /\ \A k \in 1..Len(ret.result.Failures) :
             /\ ret.result.Failures[k].Directory = HelmDir(arg.apps[nth(k)])
             /\ HasPrefix(ret.result.Failures[k].Error,
                          <<"f","a","i","l","e","d"," ","t","o"," ","r","e","s","o","l","v","e"," ","v","a","l","u","e"," ","f","i","l","e","s",":"," ","v","a","l","u","e"," ","f","i","l","e"," ","n","o","t"," ","f","o","u","n","d",":"," ">>)

\* C23: ResolveValueFiles returns on success a list of the same length and
\* order with every $values/<p> entry replaced by the repository root joined
\* with <p> and every other entry unchanged; with a $values/ entry whose file
\* does not exist it fails at the first such entry with an error and no
\* list, and in Run that failure is recorded for that Helm source only.
C23_ValueFilesResolvedInOrderOrFirstMissing ==
  /\ ResolvedInOrder
  /\ FailureOfThatSourceOnly

\* the second of two references is missing: an error naming it, no list
C23_Witness ==
  /\ fn = "ResolveValueFiles"
  /\ fpc = "returned"
  /\ arg.valueFiles = << <<"$","v","a","l","u","e","s","/",".","/","b">>, <<"$","v","a","l","u","e","s","/","a">> >>
  /\ arg.missing = {<<"/","s","r","c","/","a">>}
  /\ ~ret.ok
  /\ ret.files = <<>>
  /\ ret.err = <<"v","a","l","u","e"," ","f","i","l","e"," ","n","o","t"," ","f","o","u","n","d",":"," ","/","s","r","c","/","a"," ","(","r","e","s","o","l","v","e","d"," ","f","r","o","m"," ","$","v","a","l","u","e","s","/","a",")">>

\* the release name of a command line `helm template <release> <chart> ...`
ReleaseNameIn(command) == Split(command, Space)[3]

TemplateCalled == fn = "Template" /\ fpc = "returned"

\* renderHelmSource got as far as running helm template
SourceRendered == fn = "renderHelmSource" /\ fpc = "returned" /\ ret.res.Command # <<>>

\* helm.Template falls back to the chart for the release name
TemplateDefaultsToChart ==
  TemplateCalled =>
    ReleaseNameIn(ret.res.Command) =
      IF arg.ReleaseName = <<>> THEN arg.Chart ELSE arg.ReleaseName

\* C24 as stated: the release name of a helm template invocation defaults to
\* the chart name; for an Application Helm source without helm.releaseName
\* the command uses the chart name, otherwise the given release name.
C24_ReleaseNameDefaultsToChart ==
  /\ TemplateDefaultsToChart
  /\ SourceRendered =>
       ReleaseNameIn(ret.res.Command) =
         IF arg.src.ReleaseName = <<>> THEN arg.src.Chart ELSE arg.src.ReleaseName

\* C24 amended: helm.Template uses the chart as release name when its
\* options carry no release name; for an Application Helm source the
\* options always carry one, helm.releaseName when set and the name of the
\* Application otherwise, so the command of a source without
\* helm.releaseName uses the Application name as release name.
C24_ReleaseNameDefaultsToApplication ==
  /\ TemplateDefaultsToChart
  /\ SourceRendered =>
       ReleaseNameIn(ret.res.Command) =
         IF arg.src.ReleaseName = <<>> THEN arg.src.Name ELSE arg.src.ReleaseName

\* a source without helm.releaseName rendered under the Application's name
C24_Witness ==
  /\ SourceRendered
  /\ arg.src = SourceA1
  /\ arg.src.ReleaseName = <<>>
  /\ ReleaseNameIn(ret.res.Command) = AppA
  /\ ReleaseNameIn(ret.res.Command) # arg.src.Chart

SlugParsed == fn = "ParseRepoSlug" /\ fpc = "returned"

\* the three forms of a repository reference parse to owner/repo, and the
\* parsed slug gives the clone URL on github.com
FormsParse ==
  (SlugParsed /\ arg.kind \in {"https", "ssh", "slug"}) =>
    /\ ret.ok
    /\ ret.slug = arg.want
    /\ ret.url = <<"h","t","t","p","s",":","/","/","g","i","t","h","u","b",".","c","o","m","/">> \o arg.want \o <<".","g","i","t">>

\* GitURLFromSlug leaves what already is a URL alone
URLsKept ==
  (SlugParsed /\ (HasPrefix(arg.input, <<"h","t","t","p","s",":","/","/">>) \/ HasPrefix(arg.input, <<"g","i","t","@">>))) =>
    ret.direct = arg.input

\* C25: ParseRepoSlug returns owner/repo for an https URL with or without a
\* trailing .git or slash, for an ssh URL git@host:owner/repo with or
\* without .git and for a plain owner/repo slug, and an error for an input
\* with no slash or an empty input; GitURLFromSlug of a parsed slug is
\* https://github.com/<owner>/<repo>.git, and GitURLFromSlug leaves an
\* input that starts with https:// or git@ unchanged.
C25_SlugParsedOrRejected ==
  /\ FormsParse
  /\ URLsKept
  /\ (SlugParsed /\ (arg.input = <<>> \/ ~Contains(arg.input, Slash))) => ~ret.ok

\* what holds of ParseRepoSlug: an input without slash is rejected unless it
\* has the ssh form git@host:name, which parses to name
C25_HoldsExceptSshFormWithoutSlash ==
  /\ FormsParse
  /\ URLsKept
  /\ (SlugParsed /\ (arg.input = <<>> \/ ~Contains(arg.input, Slash))) =>
       IF HasPrefix(arg.input, <<"g","i","t","@">>) THEN ret.ok /\ ret.slug = <<"r","e","p","o">>
       ELSE ~ret.ok

\* Options that leave RedactSecrets alone carry the zero value of a Go bool
RedactSecretsNotSet == ~opts.RedactSecrets

\* the manifest of kustomize directory dir in tree t, if it was written in
\* full, is the redacted build output
RedactedIn(t, dir) ==
  \A f \in t :
    f.path = Path(<<OutputDir, dir, ManifestName>>) =>
      f.content \in {RedactSecrets(BuildOutput(dir)), <<>>}

C26_RedactedWhenSet ==
  (opts.RedactSecrets /\ run = 1) =>
    \A i \in 1..(ti - 1) : RedactedIn(clone.work, sdirs[i])

\* the paths of the files of tree t under the output root
OutputPaths(t) == {f.path : f \in {g \in t : HasPrefix(g.path, OutputDir \o Slash)}}

ManifestPathOf(target) == Path(<<OutputDir, target, ManifestName>>)

\* the targets of this Run with the given outcome
TargetsWith(outcomes) ==
  {steps[i].target : i \in {j \in 1..Len(steps) :
                              /\ steps[j].step \in {"kustomize", "helm"}
                              /\ steps[j].outcome \in outcomes}}

AtCommit == spc = "commit"

WriteFailed ==
  {sres.Failures[i].Directory :
     i \in {j \in 1..Len(sres.Failures) : sres.Failures[j].Error = WriteError("truncated")}}

\* what holds: the output root holds _meta.json, the manifests of the
\* targets rendered in this Run and nothing else but what a failed write of
\* this Run left behind; nothing of the base branch's output survives
C27_OutputRootHoldsOnlyThisRunsFiles ==
  AtCommit =>
    /\ Path(<<OutputDir, MetaName>>) \in OutputPaths(clone.work)
    /\ {ManifestPathOf(t) : t \in TargetsWith({"rendered"})} \subseteq OutputPaths(clone.work)
    /\ OutputPaths(clone.work) \subseteq
         {ManifestPathOf(t) : t \in TargetsWith({"rendered"}) \cup WriteFailed}
           \cup {Path(<<OutputDir, MetaName>>)}

\* the base branch holds the manifest of a target that is no longer
\* discovered: it is gone at commit time
C27_StaleManifestCleared ==
  /\ AtCommit
  /\ HasBranch(remote, opts.BaseBranch)
  /\ OutputPaths(remote[opts.BaseBranch]) # {}
  /\ OutputPaths(remote[opts.BaseBranch]) \cap OutputPaths(clone.work) = {}

IsPrefixOf(a, b) == Len(a) <= Len(b) /\ SubSeq(b, 1, Len(a)) = a

\* the pushed target branch is the base branch's head or one commit on it
BaseHeadPlusAtMostOne ==
  /\ IsPrefixOf(commits.base, commits.pushed)
  /\ Len(commits.pushed) <= Len(commits.base) + 1
  /\ Len(commits.pushed) = Len(commits.base) + 1 =>
       /\ made
       /\ commits.pushed[Len(commits.pushed)] = RunCommit(run)

\* an empty shadow repository gets its base branch first: one initial
\* commit, pushed by CheckoutBranch before the target branch is pushed
Bootstrapped ==
  commits.bootstrap =>
    /\ commits.base = <<"init">>
    /\ Len(pushes) = 2
    /\ pushes[1] = [branch |-> opts.BaseBranch, by |-> "checkout"]
    /\ pushes[2] = [branch |-> opts.Branch, by |-> "push"]

\* C28 as stated: the target branch is always rebuilt from the base branch:
\* after a successful Run the pushed target branch is the base branch's
\* head plus at most one new commit, no earlier sync commit of the remote
\* target branch is part of it, and an empty shadow repository first gets
\* its base branch with one initial commit, pushed before the target.
C28_TargetRebuiltFromBase ==
  ReturnedNil =>
    /\ BaseHeadPlusAtMostOne
    /\ Elems(commits.pushed) \cap Elems(commits.prior) \cap SyncCommits = {}
    /\ Bootstrapped

\* C28 amended: after a successful Run the pushed target branch is the base
\* branch's head plus at most one new commit; when the target branch is not
\* the base branch, no commit that only the previous remote target branch
\* had is part of it; when the target branch is the base branch itself, the
\* branch keeps all its commits, earlier sync commits included, and gets the
\* new commit on top; an empty shadow repository first gets its base branch
\* with one initial commit, pushed before the target branch.
C28_TargetIsBaseHeadPlusOne ==
  ReturnedNil =>
    /\ BaseHeadPlusAtMostOne
    /\ opts.Branch # opts.BaseBranch =>
         Elems(commits.pushed) \cap Elems(commits.prior) \subseteq Elems(commits.base) \ SyncCommits
    /\ (opts.Branch = opts.BaseBranch /\ ~commits.bootstrap) =>
         IsPrefixOf(commits.prior, commits.pushed)
    /\ Bootstrapped

\* pr-7 had a commit of an earlier sync; the pushed pr-7 is main's head and
\* the commit of this Run
C28_Witness ==
  /\ ReturnedNil
  /\ opts.Branch = PR7
  /\ commits.prior = <<"c0", "p7">>
  /\ commits.pushed = <<"c0", "r1">>

\* an empty shadow repository: main is pushed with the initial commit, then
\* the target branch
C28_BootstrapReached ==
  /\ ReturnedNil
  /\ commits.bootstrap
  /\ opts.Branch # opts.BaseBranch
  /\ commits.pushed = <<"init", "r1">>

\* what Run writes for rendered output: its RedactSecrets image when the
\* Options ask for redaction
Written(output) == IF opts.RedactSecrets THEN RedactSecrets(output) ELSE output

\* the manifests in the working tree, _meta.json apart
ManifestsAtCommit == OutputPaths(clone.work) \ {Path(<<OutputDir, MetaName>>)}

\* every Helm source was rendered and its manifest written
AllHelmRendered ==
  /\ Len(world.apps) > 0
  /\ sres.HelmAppsRendered = Len(world.apps)

\* C29: distinct render targets are written to distinct output files: no
\* manifest file is written twice within one Run, so every target counted
\* in RenderedDirs or HelmAppsRendered, each of several Helm sources of one
\* Application included, has its own redacted manifest at commit time.
C29_EveryRenderedTargetKeepsItsManifest ==
  AtCommit =>
    /\ Cardinality(ManifestsAtCommit) >= sres.RenderedDirs + sres.HelmAppsRendered
    /\ AllHelmRendered =>
         \A i \in 1..Len(world.apps) :
           File(ManifestPathOf(HelmDir(world.apps[i])), Written(ChartOutput(world.apps[i])))
             \in clone.work

\* what holds: the kustomize directories have their own manifests, and of
\* the Helm sources of one Application the last one rendered has
C29_LastHelmSourceOfAnApplicationWins ==
  AtCommit =>
    /\ Cardinality({p \in ManifestsAtCommit : ~HasPrefix(p, Path(<<OutputDir, Seg_apps, AppA, Seg_helm>>))})
         >= sres.RenderedDirs
    /\ AllHelmRendered =>
         File(ManifestPathOf(HelmDir(world.apps[Len(world.apps)])),
              Written(ChartOutput(world.apps[Len(world.apps)]))) \in clone.work

\* a name made of pr- and one or more digits
NamedPRDigits(b) ==
  /\ Len(b) >= 4
  /\ SubSeq(b, 1, 3) = <<"p","r","-">>
  /\ \A i \in 4..Len(b) : b[i] \in {"0", "1", "2", "3", "4", "5", "6", "7", "8", "9"}

\* C30: CleanupStaleBranches deletes only branches named exactly
\* pr-<digits>: a listed branch with another name is recorded in
\* CheckedBranches and never deleted, skipped or queried; DeletedBranches
\* and SkippedBranches are disjoint subsets of CheckedBranches; with dryRun
\* true no branch is deleted from the remote.
C30_OnlyPRDigitsBranchesTouched ==
  LET checked == Elems(cres.CheckedBranches)
      deleted == Elems(cres.DeletedBranches)
      skipped == Elems(cres.SkippedBranches)
  IN  /\ \A i \in 1..Len(clooked) :
           LET e == clooked[i]
           IN  ~NamedPRDigits(e.branch) =>
                 /\ e.branch \in checked
                 /\ e.branch \notin deleted \cup skipped
                 /\ ~e.queried
                 /\ e.branch \in cremote
      /\ \A b \in Elems(clisted) \ cremote : NamedPRDigits(b) /\ b \in deleted
      /\ \A b \in deleted \cup skipped : NamedPRDigits(b)
      /\ deleted \cap skipped = {}
      /\ deleted \cup skipped \subseteq checked
      /\ cdry => Elems(clisted) \subseteq cremote

\* pr-7 is deleted while pr-7a, listed with it, is only recorded
C30_Witness ==
  /\ cpc = "returned"
  /\ ~cdry
  /\ PR7 \in Elems(cres.DeletedBranches)
  /\ PR7 \notin cremote
  /\ <<"p","r","-","7","a">> \in Elems(cres.CheckedBranches)
  /\ <<"p","r","-","7","a">> \in cremote
  /\ \E i \in 1..Len(clooked) : clooked[i].branch = <<"p","r","-","7","a">> /\ ~clooked[i].queried
  /\ PR8 \in Elems(cres.SkippedBranches)

\* a dry run over closed pull requests reports deletions and deletes nothing
C30_DryRunReached ==
  /\ cpc = "returned"
  /\ cdry
  /\ PR7 \in Elems(cres.DeletedBranches)
  /\ PR7 \in cremote

====
